---------------------------- MODULE Spec2Model ----------------------------
(***************************************************************************)
(* DIM-Creator: the extraction worker (extraction_utils.py), the packaging *)
(* pipeline (packaging_utils.py) and the owner's worker lifecycle (app.py) *)
(* as state machines over one set of variables:                            *)
(*   SpecExtract : one run of ContentExtractionWorker.run                  *)
(*   SpecPack    : one run of PackagingWorker.run / PackagingPipeline      *)
(*   SpecGui     : DIMPackageGUI's start requests, dialogs and slots       *)
(*   SpecScan    : one call of ContentExtractionWorker.scanDirectory       *)
(*                                                                         *)
(* A file or folder name is a sequence of characters, a path a sequence of *)
(* names; absolute paths start at the filesystem root <<>>.                *)
(***************************************************************************)
EXTENDS Integers, Sequences, FiniteSets, TLC

VARIABLES
    \* ---- ContentExtractionWorker (one run)
    xpc,                \* position of run()
    topTree,            \* entries below temp_dir
    nestedTree,         \* entries below nested_temp_dir
    copy_template_files,\* constructor argument
    base_paths,         \* candidates handed to extractRelevantContent
    directory,          \* "top" or "nested": the directory being copied from
    branch,             \* the branch of run()'s decision table that was taken
    success,            \* run()'s local flag
    signals,            \* extractionError / extractionComplete emitted so far
    tempExists,         \* temp_dir exists on disk
    nestedExists,       \* nested_temp_dir exists on disk
    created,            \* destination directories made by os.makedirs
    files_to_copy,      \* (src, dst) pairs scheduled
    copied,             \* destinations written by copy_file
    copiedTemplates,    \* self.copiedTemplates
    templateDest,       \* names present in template_destination
    nestedDecompressed, \* patoolib ran on an embedded archive
    remaining,          \* run()'s local remaining_archives, once computed
    new_base_paths,     \* processEmbeddedArchive()'s local, once computed
    caught,             \* exceptions that reached an except clause of run() /
                        \* processEmbeddedArchive(), in order: [cause, text]
    \* ---- PackagingWorker / PackagingPipeline (one run)
    ppc,                \* position of execute()
    clean_support,      \* spec.clean_support
    image_path,         \* spec.image_path is set
    seven_zip_path,     \* find_7z_executable() found a binary
    progressLog,        \* calls of the progress callback: [stage, value, backend]
    stagesRun,          \* stages started, in order
    written,            \* files written by the run
    failedAt,           \* stage that returned False or raised ("" if none)
    raised,             \* an exception escaped a stage
    result,             \* execute()'s return value
    finishedEmitted,    \* PackagingWorker.finished emissions
    pInterrupted,       \* requestInterruption() was called on the worker
    pAfterInterrupt,    \* stages started after that call
    stderr_output,      \* _zip_with_7z's local: what the tool wrote to stderr
    \* ---- DIMPackageGUI (owner)
    guiPc,              \* "idle", a modal dialog, cleaning the build folder, or "closed"
    extractionWorker,   \* self.extractionWorker (0 = None)
    packaging_worker,   \* self.packaging_worker (0 = None)
    extractionHadError, \* self._extractionHadError
    wstate,             \* per extraction worker: "unborn", "running", "finished"
    wscript,            \* per extraction worker: signals its run() still emits
    winterrupted,       \* per extraction worker: interruption requested
    queue,              \* queued signal deliveries to the owner's thread
    info,               \* title of the last info bar shown by a start request
    lastDestSet,        \* process() stored last_destination_folder
    shown,              \* workers whose completion showed the success state
    werror,             \* workers whose run emitted extractionError
    \* scanDirectory on its own
    spc,                \* "ready" before the call, "scanned" after it
    scanTree,           \* the directory tree handed to scanDirectory
    scanCandidates,     \* the returned base_paths
    scanArchives,       \* the returned embedded_archive_files
    \* ---- PackagingPipeline._build_zip_name / DIMPackageGUI.build_zip_filename
    prefix,             \* spec.prefix / prefix_input.text()
    sku,                \* spec.sku / sku_input.text()
    product_part,       \* spec.product_part / product_part_input.value()
    product_name,       \* spec.product_name / product_name_input.text()
    zip_names,          \* what the calls of _build_zip_name returned, in order
    zipPreview,         \* what the calls of build_zip_filename returned, in order
    \* ---- PackagingPipeline._create_manifest on its own
    os_sep,             \* os.sep of the platform
    mfTree,             \* entries below content_dir
    manifest,           \* VALUE of the File elements written, in order
    mfResult,           \* "" before the call, then "ok" (True) or "failed" (False)
    \* ---- PackagingPipeline._clean_support_directory and its call in execute()
    supExists,          \* content_dir/Runtime/Support exists
    supTree,            \* entries below Runtime/Support: [p, t, ro]
    cleanResult,        \* "" before the call, then "ok" (True) or "failed" (False)
    loggedPath,         \* the path named in log.error, <<>> if nothing was logged
    execResult,         \* the message execute() returned at once, <<>> if none
    imageStarted,       \* execute() went on to the image stage
    \* ---- PackagingPipeline._zip_with_zipfile on its own
    zipTree,            \* entries below arc_base, the parent of content_dir
    zipEntries,         \* arcname of every zipf.write, in order
    zipReports,         \* arcname of the file behind every progress_callback, in
                        \* order; <<>> stands for the closing progress_callback(100)
    zipResult,          \* "" before the call, then "ok" (True) or "raised"
    \* ---- extractRelevantContent: the directory loop, the copy pool, run()'s finally
    kpc,                \* "dirs", "pool", "returned", "done"
    kTree,              \* entries below the directory that is copied from
    kMade,              \* destination directories os.makedirs created in the loop
    kFailedDirs,        \* destination directories whose os.makedirs failed there
    kTask,              \* per (src, dst) pair: "queued", "running", "done", "failed"
    kCopied,            \* destinations written by copy_file
    kTempExists,        \* temp_dir exists
    kComplete           \* extractionComplete was emitted

xvars == <<xpc, topTree, nestedTree, copy_template_files, base_paths, directory,
           branch, success, signals, tempExists, nestedExists, created,
           files_to_copy, copied, copiedTemplates, templateDest,
           nestedDecompressed, remaining,
                   new_base_paths, caught>>
pvars == <<ppc, clean_support, image_path, seven_zip_path, progressLog, stagesRun,
           written, failedAt, raised, result, finishedEmitted, pInterrupted,
           pAfterInterrupt, stderr_output>>
gvars == <<guiPc, extractionWorker, packaging_worker, extractionHadError, wstate,
           wscript, winterrupted, queue, info, lastDestSet, shown, werror>>
svars == <<spc, scanTree, scanCandidates, scanArchives>>
nvars == <<prefix, sku, product_part, product_name, zip_names, zipPreview>>
mvars == <<os_sep, mfTree, manifest, mfResult>>
cvars == <<supExists, supTree, cleanResult, loggedPath, execResult, imageStarted>>
zvars == <<zipTree, zipEntries, zipReports, zipResult>>
kvars == <<kpc, kTree, kMade, kFailedDirs, kTask, kCopied, kTempExists, kComplete>>
fvars == <<nvars, mvars, cvars, zvars, kvars>>
vars == <<xvars, pvars, gvars, svars, fvars>>

---------------------------------------------------------------------------
(* Bounds of the model *)

\* entries in one decompressed archive
MaxFiles == 3
\* extraction workers the owner creates in one session
MaxWorkers == 3
\* percentage lines the external compressor prints / files the built-in one adds
MaxReports == 2
\* failed os.makedirs calls, and failed copy_file tasks, in one run
MaxFaults == 1
\* characters in a prefix, SKU or product name typed freely
MaxLen == 2
\* calls of _build_zip_name on one PackageSpec
MaxCalls == 2
\* threads of the copy pool (max_workers)
MaxPool == 2

---------------------------------------------------------------------------
(* Strings: str.casefold / str.lower, str.endswith, substring test *)

LowerChar(c) ==
    CASE c = "A" -> "a" [] c = "B" -> "b" [] c = "C" -> "c" [] c = "D" -> "d"
      [] c = "E" -> "e" [] c = "F" -> "f" [] c = "G" -> "g" [] c = "H" -> "h"
      [] c = "I" -> "i" [] c = "J" -> "j" [] c = "K" -> "k" [] c = "L" -> "l"
      [] c = "M" -> "m" [] c = "N" -> "n" [] c = "O" -> "o" [] c = "P" -> "p"
      [] c = "Q" -> "q" [] c = "R" -> "r" [] c = "S" -> "s" [] c = "T" -> "t"
      [] c = "U" -> "u" [] c = "V" -> "v" [] c = "W" -> "w" [] c = "X" -> "x"
      [] c = "Y" -> "y" [] c = "Z" -> "z" [] OTHER -> c

casefold(s) == [i \in 1..Len(s) |-> LowerChar(s[i])]

endswith(s, suffix) ==
    /\ Len(suffix) <= Len(s)
    /\ SubSeq(s, Len(s) - Len(suffix) + 1, Len(s)) = suffix

contains(s, sub) ==
    \E i \in 1..(Len(s) - Len(sub) + 1) : SubSeq(s, i, i + Len(sub) - 1) = sub

\* the literals of extraction_utils.py
ext_zip == <<".", "z", "i", "p">>
ext_rar == <<".", "r", "a", "r">>
ext_7z == <<".", "7", "z">>
templ == <<"t", "e", "m", "p", "l">>

\* names used in the modelled archives
n_Data == <<"D", "a", "t", "a">>
n_Runtime == <<"R", "u", "n", "t", "i", "m", "e">>
n_pkg == <<"p", "k", "g">>
n_a_duf == <<"a", ".", "d", "u", "f">>
n_b_duf == <<"b", ".", "d", "u", "f">>
n_readme == <<"r", "e", "a", "d", "m", "e">>
n_p_zip == <<"p", ".", "z", "i", "p">>
n_q_RAR == <<"q", ".", "R", "A", "R">>
n_Templ_7z == <<"T", "e", "m", "p", "l", ".", "7", "z">>
n_DS_Store == <<".", "D", "S", "_", "S", "t", "o", "r", "e">>
n_Thumbs_db == <<"T", "h", "u", "m", "b", "s", ".", "d", "b">>
n_desktop_ini == <<"d", "e", "s", "k", "t", "o", "p", ".", "i", "n", "i">>
n_MACOSX == <<"_", "_", "M", "A", "C", "O", "S", "X">>
n_lnk == <<"l", "n", "k">>
n_tmp == <<"t", "m", "p">>
n_top == <<"t", "o", "p">>
n_nest == <<"n", "e", "s", "t">>
n_doc == <<"d", "o", "c">>
n_DIMBuild == <<"D", "I", "M", "B", "u", "i", "l", "d">>
n_Content == <<"C", "o", "n", "t", "e", "n", "t">>
n_cwd == <<"c", "w", "d">>
DotDot == <<".", ".">>
Dot == <<".">>

---------------------------------------------------------------------------
(* Paths: os.path on sequences of names *)

IsPrefix(p, q) == Len(p) <= Len(q) /\ SubSeq(q, 1, Len(p)) = p

ParentPath(p) == SubSeq(p, 1, Len(p) - 1)

RECURSIVE NormFrom(_, _)
NormFrom(acc, rest) ==
    IF rest = <<>> THEN acc
    ELSE LET h == Head(rest)
         IN IF h = Dot THEN NormFrom(acc, Tail(rest))
            ELSE IF h = DotDot
                 THEN NormFrom(IF acc = <<>> THEN <<>> ELSE ParentPath(acc), Tail(rest))
                 ELSE NormFrom(Append(acc, h), Tail(rest))

\* os.path.normpath / os.path.abspath of an absolute path: "." dropped, ".."
\* climbs and stops at the root
abspath(p) == NormFrom(<<>>, p)

\* os.path.normpath of a relative path: a leading ".." is kept
RECURSIVE NormRelFrom(_, _)
NormRelFrom(acc, rest) ==
    IF rest = <<>> THEN acc
    ELSE LET h == Head(rest)
         IN IF h = Dot THEN NormRelFrom(acc, Tail(rest))
            ELSE IF h = DotDot /\ acc # <<>> /\ acc[Len(acc)] # DotDot
                 THEN NormRelFrom(ParentPath(acc), Tail(rest))
                 ELSE NormRelFrom(Append(acc, h), Tail(rest))

normpath(rel) == NormRelFrom(<<>>, rel)

\* os.path.commonpath of a non-empty set of absolute paths
commonpath(paths) ==
    LET one == CHOOSE p \in paths : TRUE
        common(k) == \A p \in paths : Len(p) >= k /\ SubSeq(p, 1, k) = SubSeq(one, 1, k)
        best == CHOOSE k \in 0..Len(one) :
                    common(k) /\ \A j \in 0..Len(one) : common(j) => j <= k
    IN SubSeq(one, 1, best)

\* os.path.relpath(path, start) of absolute, normalised paths
relpath(path, start) ==
    LET c == commonpath({path, start})
        ups == [i \in 1..(Len(start) - Len(c)) |-> DotDot]
    IN ups \o SubSeq(path, Len(c) + 1, Len(path))

---------------------------------------------------------------------------
(* Directory trees: what patoolib leaves in a temporary directory.  An     *)
(* entry is a regular file, a symbolic link to a file ("link") or a        *)
(* symbolic link to a directory ("dirlink"); the directories are the       *)
(* proper prefixes of the entries' paths.                                  *)

File(p) == [p |-> p, t |-> "file"]
Link(p) == [p |-> p, t |-> "link"]
DirLink(p) == [p |-> p, t |-> "dirlink"]

Universe ==
    { File(<<n_Data, n_a_duf>>),
      File(<<n_pkg, n_Runtime, n_b_duf>>),
      File(<<n_readme>>),
      File(<<n_p_zip>>),
      File(<<n_pkg, n_q_RAR>>),
      File(<<n_Templ_7z>>),
      File(<<n_Data, n_DS_Store>>),
      Link(<<n_Data, n_b_duf>>),
      DirLink(<<n_Data, n_lnk>>),
      File(<<n_Data, n_MACOSX, n_a_duf>>) }

Trees == {t \in SUBSET Universe : Cardinality(t) <= MaxFiles}

\* what the one embedded content archive may hold
NestedUniverse ==
    { File(<<n_Data, n_a_duf>>),
      File(<<n_pkg, n_Runtime, n_b_duf>>),
      File(<<n_readme>>),
      File(<<n_pkg, n_DS_Store>>) }

NestedTrees == {t \in SUBSET NestedUniverse : Cardinality(t) <= MaxFiles}

\* tempfile.mkdtemp(), tempfile.TemporaryDirectory(), self.content_dir
temp_dir == <<n_tmp, n_top>>
nested_temp_dir == <<n_tmp, n_nest>>
content_dir == <<n_doc, n_DIMBuild, n_Content>>

\* the configured folder names, and self.daz_folders
DazFolderNames == {<<"d", "a", "t", "a">>, n_Runtime}
daz_folders == {casefold(s) : s \in DazFolderNames}

basename(p) == p[Len(p)]

\* os.walk(directory): the directories visited, relative to the walked one
\* (followlinks is off: a symlinked directory is listed in dirs, never entered)
WalkRoots(tree) ==
    {<<>>} \cup UNION {{SubSeq(e.p, 1, k) : k \in 0..(Len(e.p) - 1)} : e \in tree}

\* the dirs list of os.walk at root r: sub-directories and symlinks to directories
WalkDirs(tree, r) ==
    {d \in WalkRoots(tree) : d # <<>> /\ ParentPath(d) = r}
        \cup {e.p : e \in {x \in tree : x.t = "dirlink" /\ ParentPath(x.p) = r}}

\* the files list of os.walk at root r: everything that is not a directory
WalkFiles(tree, r) ==
    {e.p : e \in {x \in tree : x.t \in {"file", "link"} /\ ParentPath(x.p) = r}}

islink(tree, p) == \E e \in tree : e.p = p /\ e.t \in {"link", "dirlink"}

---------------------------------------------------------------------------
(* ContentExtractionWorker.scanDirectory *)

IsArchiveName(fname) ==
    LET lower == casefold(fname)
    IN endswith(lower, ext_zip) \/ endswith(lower, ext_rar) \/ endswith(lower, ext_7z)

\* the walked files, relative to the scanned directory
ScannedFiles(tree) == UNION {WalkFiles(tree, r) : r \in WalkRoots(tree)}

embedded_archive_files(tree) == {f \in ScannedFiles(tree) : IsArchiveName(basename(f))}

\* the candidate of one file: the segments before its first recognised one
Matches(parts) == {i \in 1..Len(parts) : casefold(parts[i]) \in daz_folders}

\* faulty variant of FirstMatch: the deepest recognised segment wins
LastMatch(parts) == CHOOSE i \in Matches(parts) : \A j \in Matches(parts) : j <= i

FirstMatch(parts) == CHOOSE i \in Matches(parts) : \A j \in Matches(parts) : i <= j

\* faulty variant of scanDirectory: the candidate is taken relative to a
\* sub-directory of the scanned one, so it climbs out with ".."
scanDirectory_climbing(tree) ==
    {<<DotDot>> \o SubSeq(f, 1, FirstMatch(f) - 1) :
        f \in {g \in ScannedFiles(tree) : ~IsArchiveName(basename(g)) /\ Matches(g) # {}}}

scanDirectory(tree) ==
    {SubSeq(f, 1, FirstMatch(f) - 1) :
        f \in {g \in ScannedFiles(tree) : ~IsArchiveName(basename(g)) /\ Matches(g) # {}}}

\* run(): the split of the embedded archives
IsTemplateName(fname) == contains(casefold(fname), templ)

template_archives(tree) == {f \in embedded_archive_files(tree) : IsTemplateName(basename(f))}

remaining_archives(tree) == embedded_archive_files(tree) \ template_archives(tree)

\* template_archives[0]: the list is in os.walk order, top-down with the entries
\* of one directory in the order the filesystem lists them, so the first template
\* is any one that has no other template in a directory above its own
FirstTemplates(tree) ==
    {f \in template_archives(tree) :
        \A g \in template_archives(tree) :
            ~(IsPrefix(ParentPath(g), ParentPath(f)) /\ ParentPath(g) # ParentPath(f))}

\* faulty variant of Branch: top-level candidates are looked at before the
\* single content archive
BranchCandidatesFirst(nRemaining, candidates) ==
    IF nRemaining > 1 THEN "multiple"
    ELSE IF candidates # {} THEN "direct"
    ELSE IF nRemaining = 1 THEN "embedded"
    ELSE "none"

\* faulty variant of Branch: any number of content archives takes the embedded branch
BranchAnyArchive(nRemaining, candidates) ==
    IF nRemaining >= 1 THEN "embedded"
    ELSE IF candidates # {} THEN "direct"
    ELSE "none"

\* run(): the decision table on (content archives, candidates)
Branch(nRemaining, candidates) ==
    IF nRemaining > 1 THEN "multiple"
    ELSE IF nRemaining = 1 THEN "embedded"
    ELSE IF candidates # {} THEN "direct"
    ELSE "none"

---------------------------------------------------------------------------
(* ContentExtractionWorker.extractRelevantContent: the pure part *)

ignore_names == {n_DS_Store, n_Thumbs_db, n_desktop_ini, n_MACOSX}

\* faulty variant of CommonBase: the deepest candidate is taken as the root
CommonBaseDeepestCandidate(directory_abs, candidates) ==
    IF candidates # {}
    THEN abspath(directory_abs \o (CHOOSE bp \in candidates :
                                      \A other \in candidates : Len(other) <= Len(bp)))
    ELSE abspath(directory_abs)

\* the effective root: the common ancestor of the candidates, clamped to the
\* scanned directory
CommonBase(directory_abs, candidates) ==
    LET raw == IF candidates # {}
               THEN commonpath({abspath(directory_abs \o bp) : bp \in candidates})
               ELSE abspath(directory_abs)
        common_base == abspath(raw)
    IN IF commonpath({directory_abs, common_base}) # directory_abs
       THEN directory_abs
       ELSE common_base

\* faulty variant of _safe_join: the relative path is resolved without the base
\* (against the working directory) and the containment test is gone
safe_join_unanchored(base, rel) ==
    [unsafe |-> FALSE, dst |-> abspath(<<n_cwd>> \o normpath(rel))]

\* _safe_join(base, rel): the destination, or the ValueError
_safe_join(base, rel) ==
    LET rel_norm == normpath(rel)
        dst == abspath(base \o rel_norm)
        base_abs == abspath(base)
    IN IF commonpath({dst, base_abs}) # base_abs
       THEN [unsafe |-> TRUE, dst |-> dst]
       ELSE [unsafe |-> FALSE, dst |-> dst]

\* the roots of os.walk(directory_abs) that pass the common_base filter
RootsUnder(tree, directory_abs, common_base) ==
    {r \in WalkRoots(tree) :
        commonpath({abspath(directory_abs \o r), common_base}) = common_base}

\* first walk: every listed sub-directory, with its re-anchored destination
DirJobs(tree, directory_abs, common_base) ==
    {[src |-> directory_abs \o d,
      join |-> _safe_join(content_dir, relpath(directory_abs \o d, common_base))] :
        d \in UNION {WalkDirs(tree, r) : r \in RootsUnder(tree, directory_abs, common_base)}}

\* second walk: every listed file that is neither junk nor a symlink
FileJobs(tree, directory_abs, common_base) ==
    {[src |-> directory_abs \o f,
      join |-> _safe_join(content_dir, relpath(directory_abs \o f, common_base))] :
        f \in {g \in UNION {WalkFiles(tree, r) :
                                r \in RootsUnder(tree, directory_abs, common_base)} :
                    basename(g) \notin ignore_names /\ ~islink(tree, g)}}

---------------------------------------------------------------------------
(* ContentExtractionWorker.run as a state machine *)

\* os.path.join of the names of a path, as text
RECURSIVE joinpath(_)
joinpath(p) ==
    IF p = <<>> THEN <<>>
    ELSE IF Len(p) = 1 THEN p[1]
    ELSE p[1] \o <<"/">> \o joinpath(Tail(p))

\* the archive handed to the constructor
archive_file_path == <<n_doc, n_p_zip>>

\* str(e) of the exceptions the calls of run() raise: patoolib finds no program
\* for the format (it lists the programs it looked for), an OSError that
\* carries the file name it failed on, an OSError without a file name
NoProgramText == <<"c","a","n","d","i","d","a","t","e","s"," ","a","r","e"," ",
                   "(","u","n","r","a","r",",","7","z",")">>
ErrnoText == <<"[","E","r","r","n","o"," ","1","3","]">>
OSErrorText(path) == ErrnoText \o <<" ">> \o joinpath(path)
NoException == [cause |-> "other", text |-> ErrnoText]
Exceptions(path) == {[cause |-> "noExtractor", text |-> NoProgramText],
                     [cause |-> "other", text |-> OSErrorText(path)],
                     NoException}

lit_7z == <<"7", "z">>
lit_unrar == <<"u", "n", "r", "a", "r">>
NoSuitableExtractor == "No suitable extractor found (7-Zip or UnRAR)."

Complete == [sig |-> "extractionComplete", msg |-> ""]
Error(msg) == [sig |-> "extractionError", msg |-> msg]

\* the except clauses of run() and processEmbeddedArchive()
ExceptionError(e) ==
    IF contains(casefold(e.text), lit_7z) \/ contains(casefold(e.text), lit_unrar)
    THEN Error(NoSuitableExtractor)
    ELSE Error("str(e)")

DirectoryAbs == IF directory = "top" THEN temp_dir ELSE nested_temp_dir
DirectoryTree == IF directory = "top" THEN topTree ELSE nestedTree

XInit ==
    /\ xpc = "start"
    /\ topTree = {}
    /\ nestedTree = {}
    /\ copy_template_files \in BOOLEAN
    /\ base_paths = {}
    /\ directory = "top"
    /\ branch = ""
    /\ success = FALSE
    /\ signals = <<>>
    /\ tempExists = FALSE
    /\ nestedExists = FALSE
    /\ created = {}
    /\ files_to_copy = {}
    /\ copied = {}
    /\ copiedTemplates = <<>>
    /\ templateDest = {}
    /\ nestedDecompressed = FALSE
    /\ remaining = {}
    /\ new_base_paths = {}
    /\ caught = <<>>

\* run(): mkdtemp and patoolib.extract_archive of the source archive
XExtractTop ==
    /\ xpc = "start"
    /\ \E outcome \in {"mkdtempFails", "extractFails", "ok"},
          e \in Exceptions(archive_file_path), t \in Trees :
        /\ outcome # "ok" => t = {}
        /\ outcome = "ok" => e = NoException
        /\ outcome = "mkdtempFails" => e.cause = "other"
        /\ caught' = IF outcome = "ok" THEN caught ELSE Append(caught, e)
        /\ tempExists' = (outcome # "mkdtempFails")
        /\ topTree' = t
        /\ signals' = IF outcome = "ok" THEN signals ELSE Append(signals, ExceptionError(e))
        /\ xpc' = IF outcome = "ok" THEN "scanned" ELSE "finally"
    /\ UNCHANGED <<nestedTree, copy_template_files, base_paths, directory, branch,
                   success, nestedExists, created, files_to_copy, copied,
                   copiedTemplates, templateDest, nestedDecompressed, remaining,
                   new_base_paths>>

\* run(): scanDirectory(temp_dir), the split of the archives, the decision table
XDecide ==
    /\ xpc = "scanned"
    /\ LET candidates == scanDirectory(topTree)
           b == Branch(Cardinality(remaining'), candidates)
       IN /\ remaining' = remaining_archives(topTree)
          /\ branch' = b
          /\ base_paths' = candidates
          /\ signals' =
                IF b = "multiple"
                THEN Append(signals, Error("Multiple archive files found, canceling extraction."))
                ELSE IF b = "none"
                THEN Append(signals, Error("No recognized daz main folders found in the archive."))
                ELSE signals
          /\ xpc' = IF b \in {"multiple", "none"} THEN "finally"
                    ELSE IF template_archives(topTree) # {} THEN "template"
                    ELSE IF b = "embedded" THEN "embedded"
                    ELSE "relevant"
    /\ UNCHANGED <<topTree, nestedTree, copy_template_files, directory, success,
                   tempExists, nestedExists, created, files_to_copy, copied,
                   copiedTemplates, templateDest, nestedDecompressed, new_base_paths, caught>>

\* copyTemplateArchive(template_archives[0]); an exception of makedirs / copy2
\* reaches run()'s except clause, a failed os.remove is only logged
XCopyTemplateArchive ==
    /\ xpc = "template"
    /\ \E t \in FirstTemplates(topTree), outcome \in {"copyFails", "removed", "removeFails"} :
      \E e \in Exceptions(temp_dir \o t) :
        /\ outcome = "copyFails" => copy_template_files /\ e.cause = "other"
        /\ outcome # "copyFails" => e = NoException
        /\ caught' = IF outcome = "copyFails" THEN Append(caught, e) ELSE caught
        /\ templateDest' = IF copy_template_files /\ outcome # "copyFails"
                           THEN templateDest \cup {basename(t)} ELSE templateDest
        /\ copiedTemplates' = IF copy_template_files /\ outcome # "copyFails"
                              THEN Append(copiedTemplates, basename(t)) ELSE copiedTemplates
        /\ topTree' = IF outcome = "removed" THEN topTree \ {File(t)} ELSE topTree
        /\ signals' = IF outcome = "copyFails"
                      THEN Append(signals, ExceptionError(e)) ELSE signals
        /\ xpc' = IF outcome = "copyFails" THEN "finally"
                  ELSE IF branch = "embedded" THEN "embedded" ELSE "relevant"
    /\ UNCHANGED <<nestedTree, copy_template_files, base_paths, directory, branch,
                   success, tempExists, nestedExists, created, files_to_copy, copied,
                   nestedDecompressed, remaining,
                   new_base_paths>>

\* processEmbeddedArchive(): TemporaryDirectory, patoolib on the one content
\* archive, scanDirectory(nested_temp_dir)
XProcessEmbedded ==
    /\ xpc = "embedded"
    /\ \E outcome \in {"extractFails", "ok"}, n \in NestedTrees :
      \E e \in Exceptions(temp_dir \o (CHOOSE f \in remaining : TRUE)) :
        /\ outcome # "ok" => n = {}
        /\ outcome = "ok" => e = NoException
        /\ caught' = IF outcome = "ok" THEN caught ELSE Append(caught, e)
        /\ nestedExists' = TRUE
        /\ nestedDecompressed' = TRUE
        /\ nestedTree' = n
        /\ new_base_paths' = IF outcome = "ok" THEN scanDirectory(n) ELSE {}
        /\ LET found == new_base_paths'
           IN /\ signals' =
                    IF outcome = "extractFails" THEN Append(signals, ExceptionError(e))
                    ELSE IF found = {}
                    THEN Append(signals, Error("No recognized DAZ main folders found in the embedded archive."))
                    ELSE signals
              /\ base_paths' = IF outcome = "ok" /\ found # {}
                               THEN found ELSE base_paths
              /\ directory' = IF outcome = "ok" /\ found # {}
                              THEN "nested" ELSE directory
              /\ xpc' = IF outcome = "ok" /\ found # {}
                        THEN "relevant" ELSE "nestedExit"
    /\ UNCHANGED <<topTree, copy_template_files, branch, success, tempExists, created,
                   files_to_copy, copied, copiedTemplates, templateDest, remaining>>

\* extractRelevantContent() returns (normally, also after it emitted an error):
\* inside processEmbeddedArchive the with-block is left next, in run() the
\* statement after the call is success = True
ReturnFromRelevant ==
    /\ xpc' = IF directory = "nested" THEN "nestedExit" ELSE "finally"
    /\ success' = IF directory = "nested" THEN success ELSE TRUE

\* extractRelevantContent(): the first walk, os.makedirs of every destination
\* directory; a ValueError of _safe_join is emitted and ends the call, any other
\* failure of makedirs is logged and the loop goes on
XMakeDirs ==
    /\ xpc = "relevant"
    /\ LET common_base == CommonBase(DirectoryAbs, base_paths)
           jobs == DirJobs(DirectoryTree, DirectoryAbs, common_base)
           safe == {j.join.dst : j \in {k \in jobs : ~k.join.unsafe}}
       IN \E failed \in {f \in SUBSET safe : Cardinality(f) <= MaxFaults} :
            /\ created' = created \cup (safe \ failed)
            /\ IF \E j \in jobs : j.join.unsafe
               THEN /\ signals' = Append(signals, Error("Unsafe path outside content dir"))
                    /\ ReturnFromRelevant
               ELSE /\ signals' = signals
                    /\ xpc' = "files"
                    /\ success' = success
    /\ UNCHANGED <<topTree, nestedTree, copy_template_files, base_paths, directory,
                   branch, tempExists, nestedExists, files_to_copy, copied,
                   copiedTemplates, templateDest, nestedDecompressed, remaining,
                   new_base_paths, caught>>

\* extractRelevantContent(): the second walk, which fills files_to_copy
XScheduleFiles ==
    /\ xpc = "files"
    /\ LET common_base == CommonBase(DirectoryAbs, base_paths)
           jobs == FileJobs(DirectoryTree, DirectoryAbs, common_base)
       IN IF \E j \in jobs : j.join.unsafe
          THEN /\ signals' = Append(signals, Error("Unsafe path outside content dir"))
               /\ files_to_copy' = files_to_copy
               /\ ReturnFromRelevant
          ELSE /\ signals' = signals
               /\ files_to_copy' = {[src |-> j.src, dst |-> j.join.dst] : j \in jobs}
               /\ xpc' = "copy"
               /\ success' = success
    /\ UNCHANGED <<topTree, nestedTree, copy_template_files, base_paths, directory,
                   branch, tempExists, nestedExists, created, copied,
                   copiedTemplates, templateDest, nestedDecompressed, remaining,
                   new_base_paths, caught>>

\* extractRelevantContent(): the worker pool; copy_file logs its own failures,
\* a failure to run the pool reaches the function's except clause, which emits
\* str(e) as it is
XCopyFiles ==
    /\ xpc = "copy"
    /\ \E outcome \in {"poolFails", "ran"},
          failed \in {f \in SUBSET {pair.dst : pair \in files_to_copy} :
                        Cardinality(f) <= MaxFaults} :
        /\ outcome = "poolFails" => files_to_copy # {} /\ failed = {}
        /\ copied' = IF outcome = "poolFails" THEN copied
                      ELSE copied \cup ({pair.dst : pair \in files_to_copy} \ failed)
        /\ signals' = IF outcome = "poolFails" THEN Append(signals, Error("str(e)"))
                      ELSE signals
    /\ ReturnFromRelevant
    /\ UNCHANGED <<topTree, nestedTree, copy_template_files, base_paths, directory,
                   branch, tempExists, nestedExists, created, files_to_copy,
                   copiedTemplates, templateDest, nestedDecompressed, remaining,
                   new_base_paths, caught>>

\* processEmbeddedArchive(): leaving the with-block removes nested_temp_dir; a
\* failure of that removal is an exception, which reaches run()'s except clause
XNestedExit ==
    /\ xpc = "nestedExit"
    /\ \E removed \in BOOLEAN, e \in Exceptions(nested_temp_dir) :
        /\ removed => e = NoException
        /\ ~removed => e.cause = "other"
        /\ caught' = IF removed THEN caught ELSE Append(caught, e)
        /\ nestedExists' = ~removed
        /\ success' = removed
        /\ signals' = IF removed THEN signals ELSE Append(signals, ExceptionError(e))
    /\ xpc' = "finally"
    /\ UNCHANGED <<topTree, nestedTree, copy_template_files, base_paths, directory,
                   branch, tempExists, created, files_to_copy, copied,
                   copiedTemplates, templateDest, nestedDecompressed, remaining,
                   new_base_paths>>

\* run(): the finally clause; rmtree ignores its errors
XFinally ==
    /\ xpc = "finally"
    /\ \E removed \in BOOLEAN :
        /\ ~tempExists => removed
        /\ tempExists' = (tempExists /\ ~removed)
    /\ signals' = IF success THEN Append(signals, Complete) ELSE signals
    /\ xpc' = "done"
    /\ UNCHANGED <<topTree, nestedTree, copy_template_files, base_paths, directory,
                   branch, success, nestedExists, created, files_to_copy, copied,
                   copiedTemplates, templateDest, nestedDecompressed, remaining,
                   new_base_paths, caught>>

XNext ==
    \/ XExtractTop /\ UNCHANGED <<pvars, gvars, svars, fvars>>
    \/ XDecide /\ UNCHANGED <<pvars, gvars, svars, fvars>>
    \/ XCopyTemplateArchive /\ UNCHANGED <<pvars, gvars, svars, fvars>>
    \/ XProcessEmbedded /\ UNCHANGED <<pvars, gvars, svars, fvars>>
    \/ XMakeDirs /\ UNCHANGED <<pvars, gvars, svars, fvars>>
    \/ XScheduleFiles /\ UNCHANGED <<pvars, gvars, svars, fvars>>
    \/ XCopyFiles /\ UNCHANGED <<pvars, gvars, svars, fvars>>
    \/ XNestedExit /\ UNCHANGED <<pvars, gvars, svars, fvars>>
    \/ XFinally /\ UNCHANGED <<pvars, gvars, svars, fvars>>

---------------------------------------------------------------------------
(* PackagingPipeline.execute and PackagingWorker.run *)

Stages == <<"clean", "image", "manifest", "supplement", "zip">>

\* the message execute() returns when a stage returns False
StageMessage(stage) ==
    CASE stage = "clean" -> "Failed to clean the Support directory."
      [] stage = "image" -> "Image processing failed."
      [] stage = "manifest" -> "Manifest creation failed."
      [] stage = "supplement" -> "Supplement creation failed."
      [] stage = "zip" -> "Failed to create ZIP archive."

StageMessages == {StageMessage(Stages[i]) : i \in 1..Len(Stages)}

\* the value progress() gets before a stage
StageProgress(stage) ==
    CASE stage = "clean" -> 5
      [] stage = "image" -> 10
      [] stage = "manifest" -> 15
      [] stage = "supplement" -> 20

\* the file a stage writes
StageFile(stage) ==
    CASE stage = "image" -> "cover.jpg"
      [] stage = "manifest" -> "Manifest.dsx"
      [] stage = "supplement" -> "Supplement.dsx"
      [] stage = "zip" -> "archive.zip"

\* texts of the exceptions that escape a stage: str(e) of an OSError, or of an
\* exception raised without arguments
ExceptionTexts == {"[Errno 13] Permission denied", ""}

\* faulty variant of AfterStage: a stage's failure does not end the pipeline
AfterStageUngated(stage, outcome) ==
    CASE stage = "clean" -> "image"
      [] stage = "image" -> "manifest"
      [] stage = "manifest" -> "supplement"
      [] stage = "supplement" -> "zip"
      [] stage = "zip" -> "finish"

\* execute(): `if not stage(): return False, message`, else on to the next stage
AfterStage(stage, outcome) ==
    IF outcome = "ok"
    THEN CASE stage = "clean" -> "image"
           [] stage = "image" -> "manifest"
           [] stage = "manifest" -> "supplement"
           [] stage = "supplement" -> "zip"
           [] stage = "zip" -> "finish"
    ELSE IF outcome = "blocked" THEN "blocked"
    ELSE "finish"

\* faulty variant of StageResult: the except clause answers with the stage's own message
StageResultMasked(stage, outcome, text, old) ==
    CASE outcome \in {"false", "raise"} -> [success |-> FALSE, message |-> StageMessage(stage)]
      [] outcome = "ok" /\ stage = "zip" -> [success |-> TRUE, message |-> "Packaging complete."]
      [] OTHER -> old

\* execute(): the value returned once a stage ended with `outcome`; the except
\* clause returns the exception's text
StageResult(stage, outcome, text, old) ==
    CASE outcome = "false" -> [success |-> FALSE, message |-> StageMessage(stage)]
      [] outcome = "raise" -> [success |-> FALSE, message |-> text]
      [] outcome = "ok" /\ stage = "zip" -> [success |-> TRUE, message |-> "Packaging complete."]
      [] OTHER -> old

\* faulty variant of report_zip_progress: the backend's percentage is spread
\* over the whole 20-100 band
report_zip_progress_from20(percent) == 20 + ((percent * 80) \div 100)

\* report_zip_progress(percent): 25 + int((percent / 100) * 75); for percent in
\* 0..100 the float product truncates to the integer quotient
report_zip_progress(percent) == 25 + ((percent * 75) \div 100)

\* percentages the external compressor prints (-bsp1 lines matching (\d+)\s*%)
BackendPercents == {0, 50, 100}

\* sizes in bytes of the files the built-in strategy adds
FileSizes == {0, 1, 2}

RECURSIVE SeqsUpTo(_, _)
SeqsUpTo(S, n) ==
    IF n = 0 THEN {<<>>}
    ELSE LET shorter == SeqsUpTo(S, n - 1)
         IN shorter \cup {Append(q, x) : q \in {r \in shorter : Len(r) = n - 1}, x \in S}

RECURSIVE SumSeq(_)
SumSeq(q) == IF q = <<>> THEN 0 ELSE Head(q) + SumSeq(Tail(q))

\* progress(n, label) of a stage: no backend percentage behind it
StageReport(stage) == [value |-> StageProgress(stage), backend |-> <<>>]

\* report_zip_progress(percent) as the backend's callback
ZipReport(percent) == [value |-> report_zip_progress(percent), backend |-> <<percent>>]

\* _zip_with_7z: one report per parsed line, then 100 when the exit status is 0
Reports7z(percents, exitOk) ==
    [i \in 1..Len(percents) |-> ZipReport(percents[i])]
        \o (IF exitOk THEN <<ZipReport(100)>> ELSE <<>>)

\* _zip_with_zipfile: after each file int((size_zipped / total_size) * 100) with
\* total_size = max(1, calculate_total_size(arc_base)), then 100
ReportsZipfile(sizes, total_size) ==
    [i \in 1..Len(sizes) |-> ZipReport((SumSeq(SubSeq(sizes, 1, i)) * 100) \div total_size)]
        \o <<ZipReport(100)>>

\* utils.calculate_total_size(arc_base): the bytes of every file below arc_base,
\* the archived ones and `other` bytes of files the archiver skips
calculate_total_size(sizes, other) == SumSeq(sizes) + other

Max(a, b) == IF a >= b THEN a ELSE b

PInit ==
    /\ ppc = "start"
    /\ clean_support \in BOOLEAN
    /\ image_path \in BOOLEAN
    /\ seven_zip_path \in BOOLEAN
    /\ progressLog = <<>>
    /\ stagesRun = <<>>
    /\ written = {}
    /\ failedAt = ""
    /\ raised = FALSE
    /\ result = <<>>
    /\ finishedEmitted = 0
    /\ pInterrupted = FALSE
    /\ pAfterInterrupt = FALSE
    /\ stderr_output = ""

\* one stage of execute(): the progress report, the stage, the gate behind it.
\* `wrote` says whether the stage's file exists afterwards.
RunStage(stage, outcome, text, wrote, reports) ==
    /\ stagesRun' = Append(stagesRun, stage)
    /\ progressLog' = progressLog \o
            [i \in 1..Len(reports) |->
                [stage |-> stage, value |-> reports[i].value, backend |-> reports[i].backend]]
    /\ written' = IF wrote THEN written \cup {StageFile(stage)} ELSE written
    /\ failedAt' = IF outcome \in {"ok", "blocked"} THEN failedAt ELSE stage
    /\ raised' = (raised \/ outcome = "raise")
    /\ result' = StageResult(stage, outcome, text, result)
    /\ ppc' = AfterStage(stage, outcome)
    /\ pAfterInterrupt' = (pAfterInterrupt \/ pInterrupted)
    /\ stderr_output' = IF stage = "zip" /\ outcome = "false" THEN text ELSE stderr_output
    /\ UNCHANGED <<clean_support, image_path, seven_zip_path, finishedEmitted, pInterrupted>>

\* step 1, only with spec.clean_support: _clean_support_directory returns False
\* when an entry cannot be deleted; os.listdir is outside its try and may raise
PClean ==
    /\ ppc = "start"
    /\ clean_support
    /\ \E outcome \in {"ok", "false", "raise"}, text \in ExceptionTexts :
        /\ outcome # "raise" => text = ""
        /\ RunStage("clean", outcome, text, FALSE, <<StageReport("clean")>>)

\* step 2: _process_and_paste_image; no image path is a success without any
\* work, every failure inside is caught and returns False
PImage ==
    /\ ppc = "image" \/ (ppc = "start" /\ ~clean_support)
    /\ \E outcome \in {"ok", "false"}, wrote \in BOOLEAN :
        /\ ~image_path => outcome = "ok" /\ ~wrote
        /\ image_path /\ outcome = "ok" => wrote
        /\ RunStage("image", outcome, "", wrote, <<StageReport("image")>>)

\* step 3: _create_manifest; every failure is caught and returns False, the
\* file may exist by then
PManifest ==
    /\ ppc = "manifest"
    /\ \E outcome \in {"ok", "false"}, wrote \in BOOLEAN :
        /\ outcome = "ok" => wrote
        /\ RunStage("manifest", outcome, "", wrote, <<StageReport("manifest")>>)

\* step 4: _create_supplement
PSupplement ==
    /\ ppc = "supplement"
    /\ \E outcome \in {"ok", "false"}, wrote \in BOOLEAN :
        /\ outcome = "ok" => wrote
        /\ RunStage("supplement", outcome, "", wrote, <<StageReport("supplement")>>)

\* what the external tool writes to stderr when it ends with a non-zero status
StderrTexts == {"ERROR: Cannot open the file as archive", "WARNING: Access is denied"}

\* step 5 with the external tool: Popen may raise; the lines are parsed and
\* reported; a non-zero exit status reads stderr, logs it and returns False.
\* stderr is a pipe that nothing reads before process.wait(): a tool that
\* writes more to it than the pipe holds waits for a reader while readline()
\* on stdout waits for the tool, and the stage never returns ("blocked")
PZip7z ==
    /\ ppc = "zip"
    /\ seven_zip_path
    /\ \E outcome \in {"ok", "false", "raise", "blocked"},
          text \in ExceptionTexts \cup StderrTexts,
          percents \in SeqsUpTo(BackendPercents, MaxReports), wrote \in BOOLEAN :
        /\ outcome \in {"ok", "blocked"} => text = ""
        /\ outcome = "raise" => text \in ExceptionTexts
        /\ outcome = "false" => text \in StderrTexts
        /\ outcome = "raise" => percents = <<>> /\ ~wrote
        /\ outcome = "ok" => wrote
        /\ RunStage("zip", outcome, text, wrote, Reports7z(percents, outcome = "ok"))

\* step 5 with zipfile: nothing is caught inside, so it returns True or raises
\* (opening or writing the archive fails) after the reports made so far;
\* `other` are the bytes of files the walk skips
PZipZipfile ==
    /\ ppc = "zip"
    /\ ~seven_zip_path
    /\ \E outcome \in {"ok", "raise"}, text \in ExceptionTexts,
          sizes \in SeqsUpTo(FileSizes, MaxReports),
          other \in {0, 1}, wrote \in BOOLEAN :
        /\ outcome # "raise" => text = ""
        /\ outcome = "ok" => wrote
        /\ LET all == ReportsZipfile(sizes, Max(1, calculate_total_size(sizes, other)))
           IN RunStage("zip", outcome, text, wrote,
                       IF outcome = "ok" THEN all ELSE SubSeq(all, 1, Len(sizes)))

\* PackagingWorker.run(): finished.emit(success, message)
PFinish ==
    /\ ppc = "finish"
    /\ finishedEmitted' = finishedEmitted + 1
    /\ ppc' = "done"
    /\ UNCHANGED <<clean_support, image_path, seven_zip_path, progressLog, stagesRun,
                   written, failedAt, raised, result, pInterrupted, pAfterInterrupt,
                   stderr_output>>

\* closeEvent: t.requestInterruption() on the running packaging worker
PRequestInterruption ==
    /\ ppc # "done"
    /\ ~pInterrupted
    /\ pInterrupted' = TRUE
    /\ UNCHANGED <<ppc, clean_support, image_path, seven_zip_path, progressLog,
                   stagesRun, written, failedAt, raised, result, finishedEmitted,
                   pAfterInterrupt, stderr_output>>

PNext ==
    \/ PClean /\ UNCHANGED <<xvars, gvars, svars, fvars>>
    \/ PImage /\ UNCHANGED <<xvars, gvars, svars, fvars>>
    \/ PManifest /\ UNCHANGED <<xvars, gvars, svars, fvars>>
    \/ PSupplement /\ UNCHANGED <<xvars, gvars, svars, fvars>>
    \/ PZip7z /\ UNCHANGED <<xvars, gvars, svars, fvars>>
    \/ PZipZipfile /\ UNCHANGED <<xvars, gvars, svars, fvars>>
    \/ PFinish /\ UNCHANGED <<xvars, gvars, svars, fvars>>
    \/ PRequestInterruption /\ UNCHANGED <<xvars, gvars, svars, fvars>>

---------------------------------------------------------------------------
(* DIMPackageGUI: start requests, modal dialogs, queued signals *)

Workers == 1..MaxWorkers

\* the signals one run of ContentExtractionWorker emits before QThread.finished
RunScripts == {<<"extractionError">>, <<"extractionComplete">>,
               <<"extractionError", "extractionComplete">>}

\* t.isRunning() for the stored references
ExtractionRunning == extractionWorker # 0 /\ wstate[extractionWorker] = "running"
PackagingRunning == packaging_worker # 0

\* PackagingWorker.__init__(self, spec, parent=None) against the call made
PackagingWorker_init(passesSpec) == IF passesSpec THEN "constructed" ELSE "TypeError"

\* process(): PackagingWorker(content_dir=..., store=..., ..., parent=self) names
\* no `spec`, so the call raises TypeError before self.packaging_worker is
\* assigned and before any control is disabled; the slot ends there
ProcessConstruct ==
    /\ packaging_worker' = IF PackagingWorker_init(FALSE) = "constructed" THEN 1
                           ELSE packaging_worker
    /\ guiPc' = "idle"

GInit ==
    /\ guiPc = "idle"
    /\ extractionWorker = 0
    /\ packaging_worker = 0
    /\ extractionHadError = FALSE
    /\ wstate = [w \in Workers |-> "unborn"]
    /\ wscript = [w \in Workers |-> <<>>]
    /\ winterrupted = [w \in Workers |-> FALSE]
    /\ queue = <<>>
    /\ info = ""
    /\ lastDestSet = FALSE
    /\ shown = {}
    /\ werror = [w \in Workers |-> FALSE]

\* ContentExtractionWorker(...); self.extractionWorker = w; connects; w.start()
StartExtraction(script) ==
    /\ \E w \in Workers : wstate[w] = "unborn"
    /\ LET w == CHOOSE v \in Workers :
                    wstate[v] = "unborn" /\ \A u \in Workers : wstate[u] = "unborn" => v <= u
       IN /\ wstate' = [wstate EXCEPT ![w] = "running"]
          /\ wscript' = [wscript EXCEPT ![w] = script]
          /\ extractionWorker' = w

\* extractArchive(), up to the file dialog
GExtractArchive ==
    /\ guiPc = "idle"
    /\ IF ExtractionRunning
       THEN /\ info' = "Extraction running"
            /\ UNCHANGED <<guiPc, extractionHadError>>
       ELSE /\ extractionHadError' = FALSE
            /\ guiPc' = "extractDialog"
            /\ info' = ""
    /\ UNCHANGED <<extractionWorker, packaging_worker, wstate, wscript, winterrupted,
                   queue, lastDestSet, shown, werror>>

\* extractArchive(), from the return of QFileDialog.getOpenFileName
GExtractDialog ==
    /\ guiPc = "extractDialog"
    /\ guiPc' = "idle"
    /\ \E chosen \in BOOLEAN, script \in RunScripts :
        IF chosen
        THEN StartExtraction(script)
        ELSE /\ script = <<"extractionComplete">>
             /\ UNCHANGED <<extractionWorker, wstate, wscript>>
    /\ UNCHANGED <<packaging_worker, extractionHadError, winterrupted, queue, info,
                   lastDestSet, shown, werror>>

\* dropExtractArchive(archive_file_path)
GDropExtractArchive ==
    /\ guiPc = "idle"
    /\ IF ExtractionRunning
       THEN /\ info' = "Extraction running"
            /\ UNCHANGED <<extractionHadError, extractionWorker, wstate, wscript>>
       ELSE /\ extractionHadError' = FALSE
            /\ info' = ""
            /\ \E script \in RunScripts : StartExtraction(script)
    /\ UNCHANGED <<guiPc, packaging_worker, winterrupted, queue, lastDestSet, shown, werror>>

\* process(), up to the folder dialog: the guard reads packaging_worker only
GProcess ==
    /\ guiPc = "idle"
    /\ \E fieldsFilled \in BOOLEAN :
        IF PackagingRunning
        THEN /\ fieldsFilled
             /\ info' = "Already running"
             /\ guiPc' = guiPc
        ELSE IF ~fieldsFilled
        THEN /\ info' = "Missing Required Fields"
             /\ guiPc' = guiPc
        ELSE /\ info' = ""
             /\ guiPc' = "processDialog"
    /\ UNCHANGED <<extractionWorker, packaging_worker, extractionHadError, wstate,
                   wscript, winterrupted, queue, lastDestSet, shown, werror>>

\* process(), from the return of QFileDialog.getExistingDirectory
GProcessDialog ==
    /\ guiPc = "processDialog"
    /\ \E chosen \in BOOLEAN, valid \in BOOLEAN :
        IF ~chosen
        THEN /\ valid
             /\ info' = "DIM Creation Canceled"
             /\ guiPc' = "idle"
             /\ UNCHANGED <<lastDestSet, packaging_worker>>
        ELSE /\ lastDestSet' = TRUE
             /\ info' = info
             /\ IF valid
                THEN ProcessConstruct
                ELSE guiPc' = "processQuestion" /\ UNCHANGED packaging_worker
    /\ UNCHANGED <<extractionWorker, extractionHadError, wstate, wscript, winterrupted,
                   queue, shown, werror>>

\* process(), from the return of the content-validation question
GProcessQuestion ==
    /\ guiPc = "processQuestion"
    /\ \E yes \in BOOLEAN :
        IF yes
        THEN ProcessConstruct /\ info' = info
        ELSE /\ info' = "DIM Creation Canceled"
             /\ guiPc' = "idle"
             /\ UNCHANGED packaging_worker
    /\ UNCHANGED <<extractionWorker, extractionHadError, wstate, wscript, winterrupted,
                   queue, lastDestSet, shown, werror>>

\* the worker thread: run() emits its signals, then QThread emits finished and
\* isRunning() turns false; every emission is queued to the owner's thread
GWorkerStep(w) ==
    /\ wstate[w] = "running"
    /\ IF wscript[w] # <<>>
       THEN /\ queue' = Append(queue, [w |-> w, sig |-> Head(wscript[w])])
            /\ werror' = [werror EXCEPT ![w] = @ \/ Head(wscript[w]) = "extractionError"]
            /\ wscript' = [wscript EXCEPT ![w] = Tail(wscript[w])]
            /\ wstate' = wstate
       ELSE /\ queue' = Append(queue, [w |-> w, sig |-> "finished"])
            /\ wstate' = [wstate EXCEPT ![w] = "finished"]
            /\ wscript' = wscript
            /\ werror' = werror
    /\ UNCHANGED <<guiPc, extractionWorker, packaging_worker, extractionHadError,
                   winterrupted, info, lastDestSet, shown>>

\* the owner's event loop (also the one a modal dialog runs) delivers the oldest
\* queued signal to its slot: onExtractionError, onExtractionComplete,
\* _cleanupExtractionWorker
GDeliver ==
    /\ guiPc \notin {"clearCleaning", "closeCleaning", "closed"}
    /\ queue # <<>>
    /\ queue' = Tail(queue)
    /\ LET m == Head(queue)
           w == extractionWorker
       IN /\ extractionHadError' = IF m.sig = "extractionError" THEN TRUE
                                   ELSE extractionHadError
          /\ shown' = IF m.sig = "extractionComplete" /\ ~extractionHadError
                      THEN shown \cup {m.w} ELSE shown
          /\ winterrupted' = IF m.sig = "finished" /\ w # 0 /\ wstate[w] = "running"
                             THEN [winterrupted EXCEPT ![w] = TRUE] ELSE winterrupted
          /\ extractionWorker' = IF m.sig = "finished" THEN 0 ELSE extractionWorker
    /\ UNCHANGED <<guiPc, packaging_worker, wstate, wscript, info, lastDestSet, werror>>

\* clearAll(), up to the confirmation question: both guards read the stored
\* references
GClearAll ==
    /\ guiPc = "idle"
    /\ IF PackagingRunning \/ ExtractionRunning
       THEN /\ info' = "Busy"
            /\ guiPc' = guiPc
       ELSE /\ info' = ""
            /\ guiPc' = "clearQuestion"
    /\ UNCHANGED <<extractionWorker, packaging_worker, extractionHadError, wstate,
                   wscript, winterrupted, queue, lastDestSet, shown, werror>>

\* clearAll(), from the return of QMessageBox.question: on Yes clearFields(),
\* then cleanDIMBuildFolder() is entered
GClearQuestion ==
    /\ guiPc = "clearQuestion"
    /\ \E yes \in BOOLEAN :
        IF yes
        THEN /\ info' = "Clearing Successful"
             /\ guiPc' = "clearCleaning"
        ELSE /\ info' = info
             /\ guiPc' = "idle"
    /\ UNCHANGED <<extractionWorker, packaging_worker, extractionHadError, wstate,
                   wscript, winterrupted, queue, lastDestSet, shown, werror>>

\* closeEvent(): requestInterruption() and wait(5000) on each stored worker that
\* runs; the wait is bounded, so it may return with the worker still running (a
\* worker that ends during the wait is the worker having ended before it);
\* then cleanDIMBuildFolder() is entered
GCloseEvent ==
    /\ guiPc = "idle"
    /\ guiPc' = "closeCleaning"
    /\ winterrupted' = IF ExtractionRunning
                       THEN [winterrupted EXCEPT ![extractionWorker] = TRUE]
                       ELSE winterrupted
    /\ UNCHANGED <<extractionWorker, packaging_worker, extractionHadError, wstate,
                   wscript, queue, info, lastDestSet, shown, werror>>

\* cleanDIMBuildFolder(): unlink / rmtree of every entry of the build folder,
\* on the owner's thread, while the worker threads go on
GCleanDIMBuildFolder ==
    /\ guiPc \in {"clearCleaning", "closeCleaning"}
    /\ guiPc' = IF guiPc = "clearCleaning" THEN "idle" ELSE "closed"
    /\ UNCHANGED <<extractionWorker, packaging_worker, extractionHadError, wstate,
                   wscript, winterrupted, queue, info, lastDestSet, shown, werror>>

GNext ==
    \/ GExtractArchive /\ UNCHANGED <<xvars, pvars, svars, fvars>>
    \/ GExtractDialog /\ UNCHANGED <<xvars, pvars, svars, fvars>>
    \/ GDropExtractArchive /\ UNCHANGED <<xvars, pvars, svars, fvars>>
    \/ GProcess /\ UNCHANGED <<xvars, pvars, svars, fvars>>
    \/ GProcessDialog /\ UNCHANGED <<xvars, pvars, svars, fvars>>
    \/ GProcessQuestion /\ UNCHANGED <<xvars, pvars, svars, fvars>>
    \/ (\E w \in Workers : GWorkerStep(w)) /\ UNCHANGED <<xvars, pvars, svars, fvars>>
    \/ GDeliver /\ UNCHANGED <<xvars, pvars, svars, fvars>>
    \/ GCloseEvent /\ UNCHANGED <<xvars, pvars, svars, fvars>>
    \/ GClearAll /\ UNCHANGED <<xvars, pvars, svars, fvars>>
    \/ GClearQuestion /\ UNCHANGED <<xvars, pvars, svars, fvars>>
    \/ GCleanDIMBuildFolder /\ UNCHANGED <<xvars, pvars, svars, fvars>>

---------------------------------------------------------------------------
(* scanDirectory as a function of the tree it walks *)

n_data == <<"d", "a", "t", "a">>

\* entries that exercise the classification: recognised folders at depth 0 and
\* 1, two recognised segments on one path, an archive below a recognised
\* folder, an upper-case extension, and a regular file named like a folder
ScanUniverse ==
    { File(<<n_Data, n_a_duf>>),
      File(<<n_pkg, n_Runtime, n_b_duf>>),
      File(<<n_pkg, n_Runtime, n_Data, n_a_duf>>),
      File(<<n_readme>>),
      File(<<n_pkg, n_q_RAR>>),
      File(<<n_Data, n_p_zip>>),
      File(<<n_top, n_data>>),
      Link(<<n_Data, n_b_duf>>) }

ScanTrees == {t \in SUBSET ScanUniverse : Cardinality(t) <= MaxFiles}

SInit ==
    /\ spc = "ready"
    /\ scanTree \in ScanTrees
    /\ scanCandidates = {}
    /\ scanArchives = {}

\* base_paths, embedded_archive_files = self.scanDirectory(directory)
SScan ==
    /\ spc = "ready"
    /\ scanCandidates' = scanDirectory(scanTree)
    /\ scanArchives' = embedded_archive_files(scanTree)
    /\ spc' = "scanned"
    /\ UNCHANGED scanTree

SNext == SScan /\ UNCHANGED <<xvars, pvars, gvars, fvars>>

SIdle ==
    /\ spc = "idle"
    /\ scanTree = {}
    /\ scanCandidates = {}
    /\ scanArchives = {}

---------------------------------------------------------------------------
(* The archive's file name: PackagingPipeline._build_zip_name and the preview
   DIMPackageGUI.build_zip_filename *)

AsciiLower == {"a", "b", "c", "d", "e", "f", "g", "h", "i", "j", "k", "l", "m",
               "n", "o", "p", "q", "r", "s", "t", "u", "v", "w", "x", "y", "z"}
AsciiUpper == {"A", "B", "C", "D", "E", "F", "G", "H", "I", "J", "K", "L", "M",
               "N", "O", "P", "Q", "R", "S", "T", "U", "V", "W", "X", "Y", "Z"}
Digits == {"0", "1", "2", "3", "4", "5", "6", "7", "8", "9"}

\* the character classes [A-Za-z0-9] and [A-Za-z0-9._-]
IsAlnum(c) == c \in AsciiLower \cup AsciiUpper \cup Digits
IsNameChar(c) == IsAlnum(c) \/ c \in {".", "_", "-"}

UpperChar(c) ==
    CASE c = "a" -> "A" [] c = "b" -> "B" [] c = "c" -> "C" [] c = "d" -> "D"
      [] c = "e" -> "E" [] c = "f" -> "F" [] c = "g" -> "G" [] c = "h" -> "H"
      [] c = "i" -> "I" [] c = "j" -> "J" [] c = "k" -> "K" [] c = "l" -> "L"
      [] c = "m" -> "M" [] c = "n" -> "N" [] c = "o" -> "O" [] c = "p" -> "P"
      [] c = "q" -> "Q" [] c = "r" -> "R" [] c = "s" -> "S" [] c = "t" -> "T"
      [] c = "u" -> "U" [] c = "v" -> "V" [] c = "w" -> "W" [] c = "x" -> "X"
      [] c = "y" -> "Y" [] c = "z" -> "Z" [] OTHER -> c

upper(s) == [i \in 1..Len(s) |-> UpperChar(s[i])]

\* re.sub(r'[^A-Za-z0-9]+', '', s)
sub_non_alnum(s) == SelectSeq(s, IsAlnum)

\* re.sub(r'[^A-Za-z0-9._-]+', '_', s): every maximal run of other characters
\* becomes one underscore
RECURSIVE sub_non_name(_)
sub_non_name(s) ==
    IF s = <<>> THEN <<>>
    ELSE IF IsNameChar(Head(s)) THEN <<Head(s)>> \o sub_non_name(Tail(s))
    ELSE IF Len(s) > 1 /\ ~IsNameChar(s[2]) THEN sub_non_name(Tail(s))
    ELSE <<"_">> \o sub_non_name(Tail(s))

\* str.strip(chars) for a set of characters
RECURSIVE lstrip(_, _)
lstrip(s, chars) ==
    IF s # <<>> /\ Head(s) \in chars THEN lstrip(Tail(s), chars) ELSE s

RECURSIVE rstrip(_, _)
rstrip(s, chars) ==
    IF s # <<>> /\ s[Len(s)] \in chars THEN rstrip(SubSeq(s, 1, Len(s) - 1), chars) ELSE s

strip(s, chars) == rstrip(lstrip(s, chars), chars)

\* int(str): blanks around the literal are dropped, one sign may lead, single
\* underscores may stand between digits; anything else is a ValueError
Whitespace == {" "}
Signs == {"+", "-"}

IntLiteralBody(s) ==
    LET t == strip(s, Whitespace)
    IN IF t # <<>> /\ Head(t) \in Signs THEN Tail(t) ELSE t

IsIntLiteral(s) ==
    LET u == IntLiteralBody(s)
    IN /\ u # <<>>
       /\ \A i \in 1..Len(u) : u[i] \in Digits \cup {"_"}
       /\ u[1] \in Digits
       /\ u[Len(u)] \in Digits
       /\ \A i \in 1..(Len(u) - 1) : ~(u[i] = "_" /\ u[i + 1] = "_")

DigitValue(c) ==
    CASE c = "0" -> 0 [] c = "1" -> 1 [] c = "2" -> 2 [] c = "3" -> 3 [] c = "4" -> 4
      [] c = "5" -> 5 [] c = "6" -> 6 [] c = "7" -> 7 [] c = "8" -> 8 [] c = "9" -> 9

RECURSIVE DigitsValue(_, _)
DigitsValue(u, acc) ==
    IF u = <<>> THEN acc
    ELSE IF Head(u) = "_" THEN DigitsValue(Tail(u), acc)
    ELSE DigitsValue(Tail(u), 10 * acc + DigitValue(Head(u)))

int(s) ==
    LET t == strip(s, Whitespace)
        v == DigitsValue(IntLiteralBody(s), 0)
    IN IF Head(t) = "-" THEN 0 - v ELSE v

DigitChar(d) == <<"0", "1", "2", "3", "4", "5", "6", "7", "8", "9">>[d + 1]

\* str(n) of a natural number
RECURSIVE Decimal(_)
Decimal(n) ==
    IF n < 10 THEN <<DigitChar(n)>> ELSE Append(Decimal(n \div 10), DigitChar(n % 10))

Zeros(n) == [i \in 1..n |-> "0"]

\* format(n, "0<width>d"): the sign counts towards the width
format_0d(n, width) ==
    LET d == Decimal(IF n < 0 THEN 0 - n ELSE n)
        sign == IF n < 0 THEN <<"-">> ELSE <<>>
        pad == width - Len(sign) - Len(d)
    IN sign \o Zeros(IF pad > 0 THEN pad ELSE 0) \o d

\* faulty variant of zfill: the zeros are put in front of a leading sign
zfill_before_sign(s, width) ==
    IF Len(s) >= width THEN s ELSE Zeros(width - Len(s)) \o s

\* str.zfill(width): the zeros go behind a leading sign
zfill(s, width) ==
    IF Len(s) >= width THEN s
    ELSE IF s # <<>> /\ Head(s) \in Signs
    THEN <<Head(s)>> \o Zeros(width - Len(s)) \o Tail(s)
    ELSE Zeros(width - Len(s)) \o s

lit_IM == <<"I", "M">>
lit_Package == <<"P", "a", "c", "k", "a", "g", "e">>
ext_dot_zip == <<".", "z", "i", "p">>

\* faulty variant of prefix_clean: digits are stripped as well
prefix_clean_letters_only(p) ==
    upper(SelectSeq(p, LAMBDA c : c \in AsciiLower \cup AsciiUpper))

\* the parts of the name as _build_zip_name computes them
prefix_clean(p) == upper(sub_non_alnum(p))
sku_formatted(k) == IF IsIntLiteral(k) THEN format_0d(int(k), 8) ELSE zfill(k, 8)
part_str(n) == format_0d(n, 2)
sanitized_name(n) == strip(sub_non_name(n), {"_"})

_build_zip_name(p, k, part, n) ==
    prefix_clean(p) \o sku_formatted(k) \o <<"-">> \o part_str(part) \o <<"_">>
        \o sanitized_name(n) \o ext_dot_zip

\* x or default
Or(x, default) == IF x = <<>> THEN default ELSE x

build_zip_filename(p, k, part, n) ==
    LET prefix_raw == Or(p, lit_IM)
        sku_raw == Or(k, <<>>)
        name_raw == Or(n, lit_Package)
    IN Or(upper(sub_non_alnum(prefix_raw)), lit_IM)
         \o (IF IsIntLiteral(sku_raw) THEN format_0d(int(sku_raw), 8)
             ELSE IF sku_raw # <<>> THEN zfill(Or(sku_raw, <<>>), 8) ELSE Zeros(8))
         \o <<"-">> \o format_0d(part, 2) \o <<"_">>
         \o Or(strip(sub_non_name(name_raw), {"_"}), lit_Package) \o ext_dot_zip

\* the texts the fields are drawn from
PrefixChars == {"m", "*"}
SkuChars == {"4", "-", "a"}
NameChars == {"a", "!", "_"}
ex_prefix == <<"i", "m", "*", "1">>
ex_sku == <<"4", "7">>
ex_name == <<"d", "F", "o", "r", "c", "e", " ", "H", "a", "i", "r", "!">>
Prefixes == SeqsUpTo(PrefixChars, MaxLen) \cup {ex_prefix}
Skus == SeqsUpTo(SkuChars, MaxLen)
          \cup {ex_sku, <<"+", "4">>, <<"+", "a">>, <<"4", "_", "7">>, <<" ", "4">>,
                <<"1", "2", "3", "4", "5", "6", "7", "8", "9">>}
Names == SeqsUpTo(NameChars, MaxLen) \cup {ex_name}
\* the spin box holds 1..99
Parts == {1, 3}

NInit ==
    /\ prefix \in Prefixes
    /\ sku \in Skus
    /\ product_part \in Parts
    /\ product_name \in Names
    /\ zip_names = <<>>
    /\ zipPreview = <<>>

\* _zip_package(): zip_name = self._build_zip_name()
NBuildZipName ==
    /\ Len(zip_names) < MaxCalls
    /\ zip_names' = Append(zip_names, _build_zip_name(prefix, sku, product_part, product_name))
    /\ UNCHANGED <<prefix, sku, product_part, product_name, zipPreview>>

\* updateZipPreview(): build_zip_filename()
NBuildZipFilename ==
    /\ Len(zipPreview) < 1
    /\ zipPreview' = Append(zipPreview,
                            build_zip_filename(prefix, sku, product_part, product_name))
    /\ UNCHANGED <<prefix, sku, product_part, product_name, zip_names>>

NNext ==
    \/ NBuildZipName /\ UNCHANGED <<xvars, pvars, gvars, svars, mvars, cvars, zvars, kvars>>
    \/ NBuildZipFilename /\ UNCHANGED <<xvars, pvars, gvars, svars, mvars, cvars, zvars, kvars>>

\* no file name is being built
NIdle ==
    /\ prefix = <<>>
    /\ sku = <<>>
    /\ product_part = 1
    /\ product_name = <<>>
    /\ zip_names = <<>>
    /\ zipPreview = <<>>


---------------------------------------------------------------------------
(* PackagingPipeline._create_manifest *)

n_Support == <<"S", "u", "p", "p", "o", "r", "t">>
n_a_jpg == <<"a", ".", "j", "p", "g">>
n_Z_duf == <<"Z", ".", "d", "u", "f">>
n_A == <<"A">>

\* the characters of the names in code point order, which is the order of
\* list.sort() on str
CodePoints ==
    <<" ", "!", "*", "+", "-", ".", "/",
      "0", "1", "2", "3", "4", "5", "6", "7", "8", "9",
      "A", "B", "C", "D", "E", "F", "G", "H", "I", "J", "K", "L", "M",
      "N", "O", "P", "Q", "R", "S", "T", "U", "V", "W", "X", "Y", "Z", "\\", "_",
      "a", "b", "c", "d", "e", "f", "g", "h", "i", "j", "k", "l", "m",
      "n", "o", "p", "q", "r", "s", "t", "u", "v", "w", "x", "y", "z">>

ord(c) == CHOOSE i \in 1..Len(CodePoints) : CodePoints[i] = c

\* a < b for two str
StrLess(a, b) ==
    \E k \in 1..Len(b) :
        /\ k - 1 <= Len(a)
        /\ SubSeq(a, 1, k - 1) = SubSeq(b, 1, k - 1)
        /\ (k > Len(a) \/ ord(a[k]) < ord(b[k]))

\* faulty variant of FirstPath: the greatest name comes first
LastPath(paths) ==
    CHOOSE x \in paths : \A y \in paths : x = y \/ StrLess(basename(y), basename(x))

\* the entry of one directory that list.sort() puts first
FirstPath(paths) ==
    CHOOSE x \in paths : \A y \in paths : x = y \/ StrLess(basename(x), basename(y))

\* dirs.sort() / files.sort() on the entries of one directory
RECURSIVE sorted(_)
sorted(paths) ==
    IF paths = {} THEN <<>>
    ELSE LET first == FirstPath(paths) IN <<first>> \o sorted(paths \ {first})

\* os.walk(content_dir) with sorted dirs and files: the files visited, in order.
\* The walk is top-down; sorting dirs in place fixes the order of descent.
RECURSIVE walk_files(_, _)
RECURSIVE walk_each(_, _)
walk_files(tree, subdir) ==
    sorted(WalkFiles(tree, subdir)) \o walk_each(tree, sorted(WalkDirs(tree, subdir)))

walk_each(tree, dirs) ==
    IF dirs = <<>> THEN <<>>
    ELSE (IF islink(tree, Head(dirs)) THEN <<>> ELSE walk_files(tree, Head(dirs)))
             \o walk_each(tree, Tail(dirs))

\* os.path.join(*names) as text, with the platform's separator
RECURSIVE join(_, _)
join(names, sep) ==
    IF names = <<>> THEN <<>>
    ELSE IF Len(names) = 1 THEN names[1]
    ELSE names[1] \o <<sep>> \o join(Tail(names), sep)

\* str.replace(old, new) for single characters
replace(text, old, new) == [i \in 1..Len(text) |-> IF text[i] = old THEN new ELSE text[i]]

\* the names of a path given as text: os.path splits at os.sep and, where the
\* separator is the backslash, at "/" as well
RECURSIVE split(_, _, _)
split(text, sep, name) ==
    IF text = <<>> THEN (IF name = <<>> THEN <<>> ELSE <<name>>)
    ELSE IF Head(text) \in {sep, "/"}
    THEN (IF name = <<>> THEN <<>> ELSE <<name>>) \o split(Tail(text), sep, <<>>)
    ELSE split(Tail(text), sep, Append(name, Head(text)))

lit_Content_slash == <<"C", "o", "n", "t", "e", "n", "t", "/">>

\* the VALUE of the File element of one file below content_dir
manifest_value(file, sep) ==
    LET file_path == replace(join(content_dir \o file, sep), "\\", "/")
        rel_path == replace(join(relpath(split(file_path, sep, <<>>), content_dir), sep),
                            "\\", "/")
    IN lit_Content_slash \o rel_path

_create_manifest(tree, sep) ==
    LET files == walk_files(tree, <<>>)
    IN [i \in 1..Len(files) |-> manifest_value(files[i], sep)]

ManifestUniverse ==
    { File(<<n_Runtime, n_Support, n_a_jpg>>),
      File(<<n_Data, n_b_duf>>),
      File(<<n_Data, n_Z_duf>>),
      File(<<n_Data, n_A, n_a_duf>>),
      File(<<n_readme>>),
      File(<<n_Runtime, n_b_duf>>),
      Link(<<n_Data, n_a_duf>>),
      DirLink(<<n_Data, n_lnk>>) }

ManifestTrees == {t \in SUBSET ManifestUniverse : Cardinality(t) <= MaxFiles}

MInit ==
    /\ os_sep \in {"/", "\\"}
    /\ mfTree \in ManifestTrees
    /\ manifest = <<>>
    /\ mfResult = ""

\* _create_manifest(): the walk, then the file is written; any exception (the
\* file cannot be written) is logged and the result is False
MCreateManifest ==
    /\ mfResult = ""
    /\ \E outcome \in {"ok", "raise"} :
        /\ manifest' = IF outcome = "ok" THEN _create_manifest(mfTree, os_sep) ELSE <<>>
        /\ mfResult' = IF outcome = "ok" THEN "ok" ELSE "failed"
    /\ UNCHANGED <<os_sep, mfTree>>

MNext == MCreateManifest /\ UNCHANGED <<xvars, pvars, gvars, svars, nvars, cvars, zvars, kvars>>

\* no manifest is being written
MIdle ==
    /\ os_sep = "/"
    /\ mfTree = {}
    /\ manifest = <<>>
    /\ mfResult = ""


---------------------------------------------------------------------------
(* PackagingPipeline._clean_support_directory, with clean_support set *)

n_sub == <<"s", "u", "b">>
n_deep == <<"d", "e", "e", "p">>

\* an entry below Runtime/Support with its read-only attribute
Entry(p, t, ro) == [p |-> p, t |-> t, ro |-> ro]

SupportPaths ==
    { [p |-> <<n_a_jpg>>, t |-> "file"],
      [p |-> <<n_sub>>, t |-> "dir"],
      [p |-> <<n_sub, n_b_duf>>, t |-> "file"],
      [p |-> <<n_sub, n_deep>>, t |-> "dir"],
      [p |-> <<n_sub, n_deep, n_a_duf>>, t |-> "file"] }

\* a tree holds the directory of every entry it holds
ParentClosed(tree) ==
    \A e \in tree : Len(e.p) > 1 => \E d \in tree : d.p = ParentPath(e.p) /\ d.t = "dir"

SupportTrees ==
    {t \in SUBSET {Entry(x.p, x.t, ro) : x \in SupportPaths, ro \in BOOLEAN} :
        /\ ParentClosed(t)
        /\ \A e, f \in t : e.p = f.p => e = f}

support_dir == content_dir \o <<n_Runtime, n_Support>>

\* os.listdir(target_dir)
listdir(tree) == {e \in tree : Len(e.p) = 1}

\* an entry and everything below it
Subtree(tree, e) == {x \in tree : IsPrefix(e.p, x.p)}

\* shutil.rmtree(p, onexc=handle_remove_readonly): os.unlink of a read-only file
\* and os.rmdir of a read-only directory fail, rmtree then calls
\* onexc(function, path, excinfo); handle_remove_readonly takes one argument, so
\* the call is a TypeError that leaves rmtree
rmtree_raises(tree, e) == \E x \in Subtree(tree, e) : x.ro

\* what rmtree may have removed before it was left: entries that are not
\* read-only, a directory only with everything below it
RemovedBeforeError(tree, e) ==
    {r \in SUBSET {x \in Subtree(tree, e) : ~x.ro /\ x # e} :
        \A x \in r : x.t = "dir" => Subtree(tree, x) \subseteq r}

\* the entries of target_dir the loop cannot delete: a file gets os.chmod and
\* os.unlink, a directory gets rmtree
LoopFails(tree, e) == e.t = "dir" /\ rmtree_raises(tree, e)

msg_clean_failed == <<"F", "a", "i", "l", "e", "d", " ", "t", "o", " ", "c", "l",
                      "e", "a", "n", " ", "t", "h", "e", " ", "S", "u", "p", "p",
                      "o", "r", "t", " ", "d", "i", "r", "e", "c", "t", "o", "r",
                      "y", ".">>

CInit ==
    /\ supExists \in BOOLEAN
    /\ supTree \in SupportTrees
    /\ supExists = FALSE => supTree = {}
    /\ cleanResult = ""
    /\ loggedPath = <<>>
    /\ execResult = <<>>
    /\ imageStarted = FALSE

\* execute(): progress(5), _clean_support_directory(); on False the message is
\* returned, otherwise the image stage starts. The loop takes the entries in
\* the order os.listdir gives them and stops at the first it cannot delete.
CClean ==
    /\ cleanResult = ""
    /\ IF ~supExists \/ \A e \in listdir(supTree) : ~LoopFails(supTree, e)
       THEN /\ supTree' = {}
            /\ cleanResult' = "ok"
            /\ loggedPath' = <<>>
            /\ execResult' = <<>>
            /\ imageStarted' = TRUE
       ELSE \E e \in {x \in listdir(supTree) : LoopFails(supTree, x)} :
              \E before \in SUBSET {x \in listdir(supTree) : ~LoopFails(supTree, x)} :
                \E gone \in RemovedBeforeError(supTree, e) :
                  /\ supTree' = (supTree \ UNION {Subtree(supTree, b) : b \in before}) \ gone
                  /\ cleanResult' = "failed"
                  /\ loggedPath' = support_dir \o e.p
                  /\ execResult' = msg_clean_failed
                  /\ imageStarted' = FALSE
    /\ UNCHANGED supExists

CNext == CClean /\ UNCHANGED <<xvars, pvars, gvars, svars, nvars, mvars, zvars, kvars>>

\* no clean stage is running
CIdle ==
    /\ supExists = FALSE
    /\ supTree = {}
    /\ cleanResult = ""
    /\ loggedPath = <<>>
    /\ execResult = <<>>
    /\ imageStarted = FALSE


---------------------------------------------------------------------------
(* PackagingPipeline._zip_with_zipfile *)

n_Manifest_dsx == <<"M", "a", "n", "i", "f", "e", "s", "t", ".", "d", "s", "x">>
n_Supplement_dsx == <<"S", "u", "p", "p", "l", "e", "m", "e", "n", "t", ".", "d", "s", "x">>

\* a directory without files and sub-directories
EmptyDir(p) == [p |-> p, t |-> "dir"]

zip_ignore_names == {n_DS_Store, n_Thumbs_db, n_desktop_ini, n_MACOSX}

ZipUniverse ==
    { File(<<n_Manifest_dsx>>),
      File(<<n_Supplement_dsx>>),
      File(<<n_Content, n_Data, n_a_duf>>),
      File(<<n_Content, n_DS_Store>>),
      File(<<n_Content, n_MACOSX, n_a_duf>>),
      Link(<<n_Content, n_Data, n_b_duf>>),
      DirLink(<<n_Content, n_lnk>>),
      EmptyDir(<<n_Content, n_Runtime>>) }

ZipTrees == {t \in SUBSET ZipUniverse : Cardinality(t) <= MaxFiles}

\* os.path.isfile(file_path) and not os.path.islink(file_path)
IsRegularFile(tree, f) == \E e \in tree : e.p = f /\ e.t = "file"

\* arcname: os.path.relpath(file_path, arc_base).replace(os.sep, '/')
arcname(f, sep) == replace(join(f, sep), sep, "/")

\* the files the loop writes, in the order of the sorted walk of arc_base (a
\* directory without files and sub-directories adds nothing)
RECURSIVE archived(_, _)
archived(tree, files) ==
    IF files = <<>> THEN <<>>
    ELSE (IF basename(Head(files)) \notin zip_ignore_names /\ IsRegularFile(tree, Head(files))
          THEN <<Head(files)>> ELSE <<>>) \o archived(tree, Tail(files))

ZInit ==
    /\ zipTree \in ZipTrees
    /\ zipEntries = <<>>
    /\ zipReports = <<>>
    /\ zipResult = ""

\* _zip_with_zipfile(): zipf.write and one progress_callback per file, then
\* progress_callback(100); nothing is caught, a failure to open or write the
\* archive leaves the function after `done` files
ZZipfile ==
    /\ zipResult = ""
    /\ \E sep \in {"/", "\\"}, outcome \in {"ok", "raise"} :
        LET files == archived(zipTree, walk_files(zipTree, <<>>))
            names == [i \in 1..Len(files) |-> arcname(files[i], sep)]
        IN \E done \in 0..Len(names) :
            /\ outcome = "ok" => done = Len(names)
            /\ zipEntries' = SubSeq(names, 1, done)
            /\ zipReports' = SubSeq(names, 1, done) \o
                               (IF outcome = "ok" THEN <<<<>>>> ELSE <<>>)
            /\ zipResult' = IF outcome = "ok" THEN "ok" ELSE "raised"
    /\ UNCHANGED zipTree

ZNext == ZZipfile /\ UNCHANGED <<xvars, pvars, gvars, svars, nvars, mvars, cvars, kvars>>

\* no archive is being written
ZIdle ==
    /\ zipTree = {}
    /\ zipEntries = <<>>
    /\ zipReports = <<>>
    /\ zipResult = ""


---------------------------------------------------------------------------
(* extractRelevantContent: directories first, then the worker pool *)

CopyUniverse ==
    { File(<<n_Data, n_a_duf>>),
      File(<<n_Data, n_b_duf>>),
      File(<<n_pkg, n_Runtime, n_b_duf>>),
      File(<<n_readme>>) }

\* run() calls extractRelevantContent only with candidates
CopyTrees == {t \in SUBSET CopyUniverse : scanDirectory(t) # {}}

\* the destinations of the directory loop and the pairs of files_to_copy
CopyDirs(tree) ==
    {j.join.dst : j \in DirJobs(tree, temp_dir, CommonBase(temp_dir, scanDirectory(tree)))}

CopyPairs(tree) ==
    {[src |-> j.src, dst |-> j.join.dst] :
        j \in FileJobs(tree, temp_dir, CommonBase(temp_dir, scanDirectory(tree)))}

\* faulty variant of PoolDrained: the pool is left once every task was handed out
PoolSubmitted(task) == \A j \in DOMAIN task : task[j] # "queued"

\* list(executor.map(...)) and the end of the with-block: every task has ended
PoolDrained(task) == \A j \in DOMAIN task : task[j] \in {"done", "failed"}

KInit ==
    /\ kpc = "dirs"
    /\ kTree \in CopyTrees
    /\ kMade = {}
    /\ kFailedDirs = {}
    /\ kTask = <<>>
    /\ kCopied = {}
    /\ kTempExists = TRUE
    /\ kComplete = FALSE

\* the first walk: os.makedirs for every listed directory, a failure is logged
\* and the loop goes on; then the second walk fills files_to_copy and the pool
\* is entered if there is anything to copy
KMakeDirs ==
    /\ kpc = "dirs"
    /\ \E failed \in {f \in SUBSET CopyDirs(kTree) : Cardinality(f) <= MaxFaults} :
        /\ kMade' = CopyDirs(kTree) \ failed
        /\ kFailedDirs' = failed
    /\ kTask' = [j \in CopyPairs(kTree) |-> "queued"]
    /\ kpc' = IF CopyPairs(kTree) = {} THEN "returned" ELSE "pool"
    /\ UNCHANGED <<kTree, kCopied, kTempExists, kComplete>>

\* a pool thread takes a pair
KStartTask ==
    /\ kpc = "pool"
    /\ Cardinality({j \in DOMAIN kTask : kTask[j] = "running"}) < MaxPool
    /\ \E j \in DOMAIN kTask :
        /\ kTask[j] = "queued"
        /\ kTask' = [kTask EXCEPT ![j] = "running"]
    /\ UNCHANGED <<kpc, kTree, kMade, kFailedDirs, kCopied, kTempExists, kComplete>>

\* copy_file(pair): os.makedirs of the parent and shutil.copy2; a failure is logged
KFinishTask ==
    /\ kpc = "pool"
    /\ \E j \in DOMAIN kTask, ok \in BOOLEAN :
        /\ kTask[j] = "running"
        /\ kTask' = [kTask EXCEPT ![j] = IF ok THEN "done" ELSE "failed"]
        /\ kCopied' = IF ok THEN kCopied \cup {j.dst} ELSE kCopied
    /\ UNCHANGED <<kpc, kTree, kMade, kFailedDirs, kTempExists, kComplete>>

\* the with-block of the pool is left and extractRelevantContent returns
KPoolExit ==
    /\ kpc = "pool"
    /\ PoolDrained(kTask)
    /\ kpc' = "returned"
    /\ UNCHANGED <<kTree, kMade, kFailedDirs, kTask, kCopied, kTempExists, kComplete>>

\* run(): success = True, then the finally clause: rmtree(temp_dir,
\* ignore_errors=True) and extractionComplete
KFinally ==
    /\ kpc = "returned"
    /\ \E removed \in BOOLEAN : kTempExists' = ~removed
    /\ kComplete' = TRUE
    /\ kpc' = "done"
    /\ UNCHANGED <<kTree, kMade, kFailedDirs, kTask, kCopied>>

KNext ==
    \/ KMakeDirs /\ UNCHANGED <<xvars, pvars, gvars, svars, nvars, mvars, cvars, zvars>>
    \/ KStartTask /\ UNCHANGED <<xvars, pvars, gvars, svars, nvars, mvars, cvars, zvars>>
    \/ KFinishTask /\ UNCHANGED <<xvars, pvars, gvars, svars, nvars, mvars, cvars, zvars>>
    \/ KPoolExit /\ UNCHANGED <<xvars, pvars, gvars, svars, nvars, mvars, cvars, zvars>>
    \/ KFinally /\ UNCHANGED <<xvars, pvars, gvars, svars, nvars, mvars, cvars, zvars>>

\* no copy step is running
KIdle ==
    /\ kpc = "done"
    /\ kTree = {}
    /\ kMade = {}
    /\ kFailedDirs = {}
    /\ kTask = <<>>
    /\ kCopied = {}
    /\ kTempExists = FALSE
    /\ kComplete = FALSE

FIdle == NIdle /\ MIdle /\ CIdle /\ ZIdle /\ KIdle

---------------------------------------------------------------------------
(* The specifications *)

\* a worker that was never started
XIdle ==
    /\ xpc = "done"
    /\ topTree = {}
    /\ nestedTree = {}
    /\ copy_template_files = FALSE
    /\ base_paths = {}
    /\ directory = "top"
    /\ branch = ""
    /\ success = FALSE
    /\ signals = <<>>
    /\ tempExists = FALSE
    /\ nestedExists = FALSE
    /\ created = {}
    /\ files_to_copy = {}
    /\ copied = {}
    /\ copiedTemplates = <<>>
    /\ templateDest = {}
    /\ nestedDecompressed = FALSE
    /\ remaining = {}
    /\ new_base_paths = {}
    /\ caught = <<>>

PIdle ==
    /\ ppc = "done"
    /\ clean_support = FALSE
    /\ image_path = FALSE
    /\ seven_zip_path = FALSE
    /\ progressLog = <<>>
    /\ stagesRun = <<>>
    /\ written = {}
    /\ failedAt = ""
    /\ raised = FALSE
    /\ result = <<>>
    /\ finishedEmitted = 0
    /\ pInterrupted = FALSE
    /\ pAfterInterrupt = FALSE
    /\ stderr_output = ""

InitExtract == XInit /\ PIdle /\ GInit /\ SIdle /\ FIdle

InitPack == PInit /\ XIdle /\ GInit /\ SIdle /\ FIdle

InitGui == GInit /\ XIdle /\ PIdle /\ SIdle /\ FIdle

InitScan == SInit /\ XIdle /\ PIdle /\ GInit /\ FIdle

SpecExtract == InitExtract /\ [][XNext]_vars

SpecPack == InitPack /\ [][PNext]_vars

\* the worker thread is scheduled as long as it can take a step
SpecPackFair == InitPack /\ [][PNext]_vars /\ WF_vars(PNext)

SpecGui == InitGui /\ [][GNext]_vars

SpecScan == InitScan /\ [][SNext]_vars

InitName == NInit /\ XIdle /\ PIdle /\ GInit /\ SIdle /\ MIdle /\ CIdle /\ ZIdle /\ KIdle

SpecName == InitName /\ [][NNext]_vars

InitManifest == MInit /\ XIdle /\ PIdle /\ GInit /\ SIdle /\ NIdle /\ CIdle /\ ZIdle /\ KIdle

SpecManifest == InitManifest /\ [][MNext]_vars

InitClean == CInit /\ XIdle /\ PIdle /\ GInit /\ SIdle /\ NIdle /\ MIdle /\ ZIdle /\ KIdle

SpecClean == InitClean /\ [][CNext]_vars

InitZip == ZInit /\ XIdle /\ PIdle /\ GInit /\ SIdle /\ NIdle /\ MIdle /\ CIdle /\ KIdle

SpecZip == InitZip /\ [][ZNext]_vars

InitCopy == KInit /\ XIdle /\ PIdle /\ GInit /\ SIdle /\ NIdle /\ MIdle /\ CIdle /\ ZIdle

SpecCopy == InitCopy /\ [][KNext]_vars

---------------------------------------------------------------------------
(* Claims C1 - C10 *)

HasSignal(name) == \E i \in 1..Len(signals) : signals[i].sig = name

\* C1 (SpecExtract): a finished run has delivered exactly one terminal
\* notification, extractionComplete or extractionError, never both and never
\* none.  Violated: an error emitted inside processEmbeddedArchive or
\* extractRelevantContent is followed by extractionComplete.
C1_ExactlyOneTerminalSignal ==
    /\ xpc = "done" => Len(signals) = 1
    /\ ~(HasSignal("extractionError") /\ HasSignal("extractionComplete"))

\* the destination lies in (or is) content_dir and its path relative to
\* content_dir, the segments behind that prefix, has no ".." segment
InsideContentDir(dst) ==
    /\ IsPrefix(content_dir, dst)
    /\ \A i \in (Len(content_dir) + 1)..Len(dst) : dst[i] # DotDot

\* C3 (SpecExtract): every scheduled (source, destination) pair, every created
\* directory and every written file has its destination inside content_dir, with
\* no ".." in its path relative to content_dir.
C3_DestinationsInsideContentDir ==
    \A dst \in {pair.dst : pair \in files_to_copy} \cup created \cup copied :
        InsideContentDir(dst)

\* C3 witness: a finished run with two disjoint candidates that created a
\* directory and wrote a file
C3_Witness ==
    /\ xpc = "done"
    /\ Cardinality(base_paths) = 2
    /\ created # {}
    /\ copied # {}

\* C4 (SpecExtract): once the scan has found more than one content archive the
\* run has emitted the multiple-archives error and nothing else, is on its way
\* out, and has created, scheduled, copied and decompressed nothing and copied no
\* template.
C4_MultipleArchivesNoAction ==
    (xpc \notin {"start", "scanned"} /\ Cardinality(remaining) > 1)
        => /\ signals = <<Error("Multiple archive files found, canceling extraction.")>>
           /\ xpc \in {"finally", "done"}
           /\ ~success
           /\ created = {} /\ files_to_copy = {} /\ copied = {}
           /\ templateDest = {} /\ copiedTemplates = <<>>
           /\ ~nestedDecompressed /\ ~nestedExists

\* C4 witness: a finished run on two content archives beside a template
\* archive, with template copying enabled
C4_Witness ==
    /\ xpc = "done"
    /\ Cardinality(remaining) = 2
    /\ template_archives(topTree) # {}
    /\ copy_template_files

AnyExtractionRunning == \E w \in Workers : wstate[w] = "running"

\* C5 (SpecGui): the two pipeline kinds exclude each other: process() does not
\* get past its guard while an extraction worker runs, the extraction requests do
\* not get past theirs while a packaging worker runs, and both kinds never run
\* together.  Violated: process() tests packaging_worker only.
C5_PipelinesExclusive ==
    /\ guiPc \in {"processDialog", "processQuestion"} => ~AnyExtractionRunning
    /\ guiPc = "extractDialog" => ~PackagingRunning
    /\ ~(AnyExtractionRunning /\ PackagingRunning)

\* C6 (SpecGui): at most one extraction worker (and one packaging worker) runs
\* at any time.  Violated: the finished signal of an earlier worker clears the
\* reference to a later, running one, and the next request starts a second.
C6_AtMostOneWorkerPerKind ==
    Cardinality({w \in Workers : wstate[w] = "running"}) <= 1

\* C7 (SpecPack): after requestInterruption() the worker starts no further
\* stage.  Violated: the run never reads isInterruptionRequested().
C7_StopsAfterInterruption == ~pAfterInterrupt

StageIndex(stage) == CHOOSE i \in 1..Len(Stages) : Stages[i] = stage

StageEnabled(stage) == stage # "clean" \/ clean_support

\* C8 (SpecPack): the stages start in the fixed order, each only after every
\* earlier enabled stage was run and succeeded; after a failure no later stage
\* is started and no later stage's file is written.
C8_StagesOrderedAndGated ==
    /\ \A i, j \in 1..Len(stagesRun) :
            i < j => StageIndex(stagesRun[i]) < StageIndex(stagesRun[j])
    /\ \A i \in 1..Len(stagesRun) : \A k \in 1..(StageIndex(stagesRun[i]) - 1) :
            StageEnabled(Stages[k]) => \E h \in 1..(i - 1) : stagesRun[h] = Stages[k]
    /\ failedAt # "" =>
            /\ stagesRun[Len(stagesRun)] = failedAt
            /\ ppc \in {"finish", "done"}
            /\ \A k \in (StageIndex(failedAt) + 1)..Len(Stages) :
                    StageFile(Stages[k]) \notin written

\* C8 witness: a finished run whose manifest stage failed
C8_Witness ==
    /\ ppc = "done"
    /\ failedAt = "manifest"
    /\ stagesRun = <<"clean", "image", "manifest">>

\* C9 (SpecPack): a run in which a stage reported failure, or in which writing
\* the archive failed under either strategy, returns failure with that stage's
\* fixed message.  Violated: _zip_with_zipfile fails only by raising, and
\* execute() then returns the exception's text.
C9_StageFailureHasStageMessage ==
    (ppc \in {"finish", "done"} /\ failedAt # "" /\ (~raised \/ failedAt = "zip"))
        => result = [success |-> FALSE, message |-> StageMessage(failedAt)]

---------------------------------------------------------------------------
(* Claims C11 - C20 *)

\* C11 (SpecPack): the values handed to the progress callback in one run never
\* decrease, and a successful run's last value is 100.  Violated: _zip_with_7z
\* forwards every percentage the compressor prints, in the order printed.
C11_ProgressMonotoneEndsAt100 ==
    /\ \A i \in 1..(Len(progressLog) - 1) :
            progressLog[i].value <= progressLog[i + 1].value
    /\ (ppc \in {"finish", "done"} /\ result.success)
            => progressLog[Len(progressLog)].value = 100

\* the band reserved for a stage
BandLow(stage) ==
    CASE stage = "clean" -> 0 [] stage = "image" -> 5 [] stage = "manifest" -> 10
      [] stage = "supplement" -> 15 [] stage = "zip" -> 20

BandHigh(stage) ==
    CASE stage = "clean" -> 5 [] stage = "image" -> 10 [] stage = "manifest" -> 15
      [] stage = "supplement" -> 20 [] stage = "zip" -> 100

InBand(entry) ==
    /\ entry.value \in 0..100
    /\ BandLow(entry.stage) <= entry.value
    /\ entry.value <= BandHigh(entry.stage)

\* C12 as stated (SpecPack): every reported value lies in its stage's band, a
\* backend percentage 0 is reported as the compression band's lower end 20 and
\* a backend percentage 100 as 100.
C12_Original_ZeroMapsToBandLow ==
    \A i \in 1..Len(progressLog) :
        /\ InBand(progressLog[i])
        /\ progressLog[i].backend = <<0>> => progressLog[i].value = BandLow("zip")
        /\ progressLog[i].backend = <<100>> => progressLog[i].value = 100

\* C12 amended (SpecPack): every reported value lies in its stage's band; the
\* compression values lie in 25..100, a backend percentage 0 is reported as 25
\* and a backend percentage 100 as 100.
C12_ProgressInBands ==
    \A i \in 1..Len(progressLog) :
        /\ InBand(progressLog[i])
        /\ progressLog[i].stage = "zip" => progressLog[i].value \in 25..100
        /\ progressLog[i].backend = <<0>> => progressLog[i].value = 25
        /\ progressLog[i].backend = <<100>> => progressLog[i].value = 100

\* C12 witness: a finished successful run in which the backend reported 0 and
\* the run reported 100
C12_Witness ==
    /\ ppc = "done"
    /\ result.success
    /\ \E i \in 1..Len(progressLog) : progressLog[i].backend = <<0>>
    /\ \E i \in 1..Len(progressLog) : progressLog[i].backend = <<100>>

\* C13 (SpecExtract), its nested-directory case: when a run has terminated
\* the nested temporary directory it created no longer exists.  Violated: a
\* failing removal on leaving the TemporaryDirectory block raises, the
\* directory stays, and run() signals that exception instead of completion.
C13_NestedTempDirGone ==
    xpc = "done" => ~nestedExists

\* the extracted tree holds one file only, an archive with "templ" in its name
SoleTemplate(tree) ==
    /\ Cardinality(ScannedFiles(tree)) = 1
    /\ template_archives(tree) = ScannedFiles(tree)

\* C14 (SpecExtract): a run on an archive whose only file is a template archive
\* creates and copies nothing in the content directory and, with template
\* copying enabled, leaves the template at the template destination.
\* Violated: without a candidate or content archive run() fails before
\* copyTemplateArchive is ever called.
C14_SoleTemplateSiphoned ==
    (xpc = "done" /\ SoleTemplate(topTree))
        => /\ created = {} /\ files_to_copy = {} /\ copied = {}
           /\ copy_template_files =>
                templateDest = {basename(f) : f \in template_archives(topTree)}

\* where an entry at path p of the copied tree lands in content_dir: its path
\* relative to the effective root, re-anchored
Landing(p) ==
    LET common_base == CommonBase(DirectoryAbs, base_paths)
        full == DirectoryAbs \o p
    IN content_dir \o SubSeq(full, Len(common_base) + 1, Len(full))

UnderEffectiveRoot(p) ==
    IsPrefix(CommonBase(DirectoryAbs, base_paths), DirectoryAbs \o p)

\* C15 (SpecExtract): for every symbolic link, to a file or to a directory, at
\* relative path r under the effective root, the run creates nothing at r in
\* content_dir.  Violated: the directory walk lists a symlink to a directory in
\* dirs and os.makedirs creates a directory for it.
C15_NoSymlinkInContent ==
    (created \cup copied # {})
        => \A e \in {x \in DirectoryTree : x.t \in {"link", "dirlink"}} :
                UnderEffectiveRoot(e.p) => Landing(e.p) \notin created \cup copied

\* C16 (SpecExtract): nothing created or copied in content_dir is named
\* .DS_Store, Thumbs.db, desktop.ini or __MACOSX, or lies beneath an entry of
\* such a name.  Violated: only the names in the files list are tested; a
\* directory of such a name is created and the files below it are copied.
C16_NoJunkInContent ==
    \A dst \in created \cup copied :
        \A i \in (Len(content_dir) + 1)..Len(dst) : dst[i] \notin ignore_names

\* C17 (SpecScan): every candidate returned by scanDirectory has no ".."
\* segment and, joined to the scanned directory, resolves to that directory or a
\* location inside it.
C17_CandidatesInsideTree ==
    \A c \in scanCandidates :
        /\ \A i \in 1..Len(c) : c[i] # DotDot
        /\ IsPrefix(temp_dir, abspath(temp_dir \o c))

\* C17 witness: a scan that returned the root and a deeper candidate
C17_Witness ==
    /\ spc = "scanned"
    /\ <<>> \in scanCandidates
    /\ \E c \in scanCandidates : c # <<>>

Recognised(segment) == \E name \in DazFolderNames : casefold(segment) = casefold(name)

EndsInArchiveExtension(fname) ==
    \E ext \in {ext_zip, ext_rar, ext_7z} :
        /\ Len(ext) <= Len(fname)
        /\ \A k \in 1..Len(ext) : LowerChar(fname[Len(fname) - Len(ext) + k]) = ext[k]

\* the position of the leftmost recognised segment of a path, if any
Leftmost(f) ==
    {i \in 1..Len(f) : Recognised(f[i]) /\ \A j \in 1..(i - 1) : ~Recognised(f[j])}

ScanTreeFiles == {e.p : e \in scanTree}

\* C18 (SpecScan): the embedded archives are exactly the files whose name ends,
\* whatever the case, in .zip, .rar or .7z; the candidates are exactly, for
\* every other file with a recognised segment, the segments before its leftmost
\* recognised one.
C18_ScanClassifiesEveryFileOnce ==
    spc = "scanned" =>
        /\ scanArchives = {f \in ScanTreeFiles : EndsInArchiveExtension(basename(f))}
        /\ scanCandidates =
                UNION {{SubSeq(f, 1, i - 1) : i \in Leftmost(f)} :
                        f \in {g \in ScanTreeFiles : ~EndsInArchiveExtension(basename(g))}}

\* C18 witness: a scan of a path with two recognised segments, an archive
\* below a recognised folder and a file without any recognised segment
C18_Witness ==
    /\ spc = "scanned"
    /\ scanTree = {File(<<n_pkg, n_Runtime, n_Data, n_a_duf>>),
                   File(<<n_Data, n_p_zip>>),
                   File(<<n_readme>>)}
    /\ scanCandidates = {<<n_pkg>>}

\* C19 (SpecScan): every candidate is a location that directly contains a
\* directory with a recognised name.  Violated: the file's own name is among
\* the segments tested, so a regular file named like a recognised folder makes
\* its parent a candidate.
C19_CandidateHoldsRecognisedFolder ==
    \A c \in scanCandidates :
        \E d \in WalkRoots(scanTree) :
            d # <<>> /\ ParentPath(d) = c /\ Recognised(basename(d))

NothingWritten == created = {} /\ files_to_copy = {} /\ copied = {}

\* C20 (SpecExtract): once run() has decided, with no content archive and a
\* top-level candidate the content is taken from the top-level temporary
\* directory; with exactly one content archive it is taken from the nested
\* directory only, and a nested scan without candidates ends in an error with
\* nothing written; with neither the run fails with the no-recognized-folders
\* message and nothing written.
C20_DecisionTable ==
    branch # "" =>
        /\ (remaining = {} /\ base_paths # {}) =>
                /\ xpc \in {"template", "relevant", "files", "copy", "finally", "done"}
                /\ directory = "top" /\ ~nestedDecompressed
                /\ \A pair \in files_to_copy : IsPrefix(temp_dir, pair.src)
        /\ Cardinality(remaining) = 1 =>
                /\ \A pair \in files_to_copy : IsPrefix(nested_temp_dir, pair.src)
                /\ ~NothingWritten => directory = "nested"
                /\ (xpc \in {"finally", "done"} /\ nestedDecompressed
                        /\ new_base_paths = {}) =>
                        NothingWritten /\ HasSignal("extractionError")
        /\ (remaining = {} /\ base_paths = {}) =>
                /\ signals = <<Error("No recognized daz main folders found in the archive.")>>
                /\ xpc \in {"finally", "done"}
                /\ NothingWritten /\ ~nestedDecompressed

\* C20 witness: a finished run on one content archive beside a top-level
\* candidate, which copied from the nested directory
C20_Witness ==
    /\ xpc = "done"
    /\ Cardinality(remaining) = 1
    /\ scanDirectory(topTree) # {}
    /\ directory = "nested"
    /\ copied # {}

---------------------------------------------------------------------------
(* Claims C21 - C30 *)

\* C21: an extraction run reports the missing-decompressor error if and only if
\* the failure it caught was that no suitable decompressor is installed; every
\* other failure that reaches an except clause is reported with its own text
C21_MissingExtractorIffNoProgram ==
    [][Len(caught') = Len(caught) + 1 =>
         LET e == caught'[Len(caught')]
         IN signals' = Append(signals,
                              IF e.cause = "noExtractor"
                              THEN Error(NoSuitableExtractor) ELSE Error("str(e)"))]_vars

IsExampleSpec ==
    /\ prefix = ex_prefix
    /\ sku = ex_sku
    /\ product_part = 3
    /\ product_name = ex_name

\* C22 as stated: for prefix "im*1", SKU "47", part 3 and name "dForce Hair!"
\* the name built is IM000000047-03_dForce_Hair.zip
C22_Original_ExampleName ==
    IsExampleSpec /\ zip_names # <<>> =>
        zip_names[1] =
            <<"I", "M", "0", "0", "0", "0", "0", "0", "0", "4", "7", "-",
              "0", "3", "_", "d", "F", "o", "r", "c", "e", "_", "H", "a",
              "i", "r", ".", "z", "i", "p">>

\* C22: _build_zip_name is a function of the PackageSpec: every call on one spec
\* returns the same text; for prefix "im*1", SKU "47", part 3 and name
\* "dForce Hair!" that text is IM100000047-03_dForce_Hair.zip (the digit of the
\* prefix is kept)
C22_DeterministicName ==
    /\ \A i, j \in 1..Len(zip_names) : zip_names[i] = zip_names[j]
    /\ IsExampleSpec /\ zip_names # <<>> =>
           zip_names[1] =
            <<"I", "M", "1", "0", "0", "0", "0", "0", "0", "4", "7", "-",
              "0", "3", "_", "d", "F", "o", "r", "c", "e", "_", "H", "a",
              "i", "r", ".", "z", "i", "p">>

C22_Witness == IsExampleSpec /\ Len(zip_names) = 2

\* the fields process() requires are filled in
RequiredFieldsFilled == prefix # <<>> /\ sku # <<>> /\ product_name # <<>>

\* C23: the file name the pipeline writes has the prefix "IM" when the prefix is
\* empty once its non-alphanumerics are stripped, and the name "Package" when the
\* product name is empty once sanitised and trimmed; neither part is ever empty
C23_DefaultPrefixAndName ==
    RequiredFieldsFilled =>
        \A i \in 1..Len(zip_names) :
            zip_names[i] =
                Or(prefix_clean(prefix), lit_IM) \o sku_formatted(sku) \o <<"-">>
                    \o part_str(product_part) \o <<"_">>
                    \o Or(sanitized_name(product_name), lit_Package) \o ext_dot_zip

\* the SKU field of a built name: what stands between the prefix and "-NN_"
SkuField(name) ==
    SubSeq(name, Len(prefix_clean(prefix)) + 1,
           Len(name) - Len(sanitized_name(product_name)) - Len(ext_dot_zip) - 4)

AllZeros(s) == \A i \in 1..Len(s) : s[i] = "0"
AllDigits(s) == \A i \in 1..Len(s) : s[i] \in Digits

\* C24 as stated: a numeric SKU becomes 8 or more digits, any other SKU becomes
\* the same text with zeros in front of it
C24_Original_ZerosInFront ==
    \A i \in 1..Len(zip_names) :
        LET field == SkuField(zip_names[i])
        IN /\ Len(field) >= 8
           /\ IsIntLiteral(sku) => AllDigits(field)
           /\ ~IsIntLiteral(sku) =>
                  /\ endswith(field, sku)
                  /\ AllZeros(SubSeq(field, 1, Len(field) - Len(sku)))

\* C24: building the name never fails, whatever the SKU is, and the SKU field is
\* never shorter than 8 characters: a numeric SKU is rendered as its value padded
\* with zeros to width 8, a minus sign counting towards the width and standing in
\* front of the zeros; any other SKU is rendered as the same text padded with
\* zeros to width 8, the zeros standing behind a leading sign
C24_SkuFieldPadded ==
    \A i \in 1..Len(zip_names) :
        LET field == SkuField(zip_names[i])
            signed == sku # <<>> /\ Head(sku) \in Signs
            rest == IF signed THEN Tail(sku) ELSE sku
            lead == IF signed THEN 1 ELSE 0
        IN /\ Len(field) >= 8
           /\ IsIntLiteral(sku) /\ int(sku) >= 0 =>
                  /\ AllDigits(field)
                  /\ DigitsValue(field, 0) = int(sku)
                  /\ Len(field) > 8 => Head(field) # "0"
           /\ IsIntLiteral(sku) /\ int(sku) < 0 =>
                  /\ Head(field) = "-"
                  /\ AllDigits(Tail(field))
                  /\ DigitsValue(Tail(field), 0) = 0 - int(sku)
                  /\ Len(field) > 8 => field[2] # "0"
           /\ ~IsIntLiteral(sku) =>
                  /\ endswith(field, rest)
                  /\ signed => Head(field) = Head(sku)
                  /\ AllZeros(SubSeq(field, lead + 1, Len(field) - Len(rest)))
                  /\ Len(sku) >= 8 => field = sku

\* a name was built for a signed SKU that is no number
C24_Witness ==
    /\ zip_names # <<>>
    /\ sku # <<>>
    /\ Head(sku) \in Signs
    /\ ~IsIntLiteral(sku)


\* the files below content_dir: regular files and symlinks to files
ManifestFiles == {e.p : e \in {x \in mfTree : x.t \in {"file", "link"}}}

\* "Content/" and the relative path with forward slashes
ContentSlashPath(file) == lit_Content_slash \o joinpath(file)

\* file f is met before file g by a top-down walk that takes, in every
\* directory, the files first and then the sub-directories, each in the order
\* of their names: at the first name where the paths part, a file comes before
\* a directory, and two of a kind come in the order of their names
WalkBefore(f, g) ==
    \E k \in 1..Len(f) :
        /\ k <= Len(g)
        /\ SubSeq(f, 1, k - 1) = SubSeq(g, 1, k - 1)
        /\ f[k] # g[k]
        /\ \/ k = Len(f) /\ k < Len(g)
           \/ (k = Len(f)) = (k = Len(g)) /\ StrLess(f[k], g[k])

\* C25: a manifest that was written holds exactly one File entry for every file
\* below the content directory, its VALUE is "Content/" followed by the relative
\* path with forward slashes, and the entries stand in the order of a top-down
\* walk with the files and sub-directories of every directory in the order of
\* their names
C25_ManifestListsEveryFileInWalkOrder ==
    mfResult = "ok" =>
        /\ Len(manifest) = Cardinality(ManifestFiles)
        /\ \A f \in ManifestFiles : \E i \in 1..Len(manifest) : manifest[i] = ContentSlashPath(f)
        /\ \A i, j \in 1..Len(manifest) :
               \A f, g \in ManifestFiles :
                   manifest[i] = ContentSlashPath(f) /\ manifest[j] = ContentSlashPath(g)
                       /\ WalkBefore(f, g) => i < j

\* Runtime/Support/a.jpg and Data/b.duf were listed on a platform whose
\* separator is the backslash: Content/Data/b.duf, Content/Runtime/Support/a.jpg
C25_Witness ==
    /\ mfResult = "ok"
    /\ os_sep = "\\"
    /\ mfTree = {File(<<n_Runtime, n_Support, n_a_jpg>>), File(<<n_Data, n_b_duf>>)}
    /\ manifest = << <<"C", "o", "n", "t", "e", "n", "t", "/", "D", "a", "t", "a",
                       "/", "b", ".", "d", "u", "f">>,
                     <<"C", "o", "n", "t", "e", "n", "t", "/", "R", "u", "n", "t",
                       "i", "m", "e", "/", "S", "u", "p", "p", "o", "r", "t", "/",
                       "a", ".", "j", "p", "g">> >>


\* C26: when read-only attributes are the only obstacle below Runtime/Support
\* (the only obstacle this model has), the clean stage removes everything below
\* the support directory and returns success, the directory itself staying
C26_ReadOnlyTreeCleaned ==
    supExists /\ cleanResult # "" =>
        /\ cleanResult = "ok"
        /\ supTree = {}

\* C27: when an entry below Runtime/Support cannot be deleted the clean stage
\* returns failure, the image stage is not started, and the message handed to
\* the caller names the offending path; success is never returned while an
\* entry is left
C27_FailureNamesOffendingPath ==
    /\ cleanResult = "ok" => supTree = {}
    /\ cleanResult = "failed" =>
           /\ ~imageStarted
           /\ \E e \in supTree : contains(execResult, joinpath(support_dir \o e.p))


\* the external tool ran to its end (Popen did not raise)
SevenZipExited ==
    /\ seven_zip_path
    /\ ppc \in {"finish", "done"}
    /\ "zip" \in {stagesRun[i] : i \in 1..Len(stagesRun)}
    /\ ~(raised /\ failedAt = "zip")

ZipValues ==
    {progressLog[i].value : i \in {k \in 1..Len(progressLog) : progressLog[k].stage = "zip"}}

\* C28: with the external tool, a non-zero exit status fails the compression
\* stage and the pipeline, the value 100 is not reported in that run and the
\* message handed to the caller carries what the tool wrote to stderr; an exit
\* status of zero ends with a report of 100
C28_ExternalToolExitStatus ==
    SevenZipExited =>
        IF failedAt = "zip"
        THEN /\ result.success = FALSE
             /\ 100 \notin ZipValues
             /\ result.message = stderr_output
        ELSE /\ result.success = TRUE
             /\ progressLog[Len(progressLog)].value = 100


\* a file that is, or lies below, an entry with an ignored name
UnderIgnoredName(f) == \E k \in 1..Len(f) : f[k] \in zip_ignore_names

\* C29: after a successful run of the built-in strategy the archive's entries
\* are the regular files below the content directory's parent, each under its
\* relative path with forward slashes; there is no entry for a symlink, for an
\* empty directory or for anything that is named, or lies below, an ignored
\* name; progress is reported once for every archived file
C29_ArchiveEntries ==
    zipResult = "ok" =>
        /\ {zipEntries[i] : i \in 1..Len(zipEntries)} =
               {joinpath(e.p) : e \in {x \in zipTree : x.t = "file" /\ ~UnderIgnoredName(x.p)}}
        /\ \A i, j \in 1..Len(zipEntries) : zipEntries[i] = zipEntries[j] => i = j
        /\ \A i \in 1..Len(zipEntries) :
               Cardinality({k \in 1..Len(zipReports) : zipReports[k] = zipEntries[i]}) = 1


\* the files of the copied tree that are no symlinks and have no ignored name
PlainFiles ==
    {e.p : e \in {x \in DirectoryTree : x.t = "file" /\ basename(x.p) \notin ignore_names}}

UnderSomeCandidate(f) ==
    \E bp \in base_paths : IsPrefix(abspath(DirectoryAbs \o bp), DirectoryAbs \o f)

\* C30: once extractRelevantContent has filled files_to_copy, its effective root
\* is the scanned directory or lies below it and is an ancestor of (or equal
\* to) every candidate; every file below a candidate that is no symlink and has
\* no ignored name is scheduled, with the destination being its path relative
\* to that root inside content_dir; nothing outside the root is scheduled
C30_SingleEffectiveRoot ==
    xpc = "copy" =>
        LET common_base == CommonBase(DirectoryAbs, base_paths)
        IN /\ IsPrefix(DirectoryAbs, common_base)
           /\ \A bp \in base_paths : IsPrefix(common_base, abspath(DirectoryAbs \o bp))
           /\ \A f \in PlainFiles :
                  UnderSomeCandidate(f) =>
                      [src |-> DirectoryAbs \o f,
                       dst |-> content_dir \o SubSeq(DirectoryAbs \o f, Len(common_base) + 1,
                                                     Len(DirectoryAbs) + Len(f))]
                          \in files_to_copy
           /\ \A pair \in files_to_copy : IsPrefix(common_base, pair.src)

\* files were scheduled from a root below the scanned directory while a file
\* outside that root was in the tree
C30_Witness ==
    /\ xpc = "copy"
    /\ files_to_copy # {}
    /\ CommonBase(DirectoryAbs, base_paths) # DirectoryAbs
    /\ \E f \in PlainFiles : ~IsPrefix(CommonBase(DirectoryAbs, base_paths), DirectoryAbs \o f)

---------------------------------------------------------------------------
(* Claims C31 - C40 *)

TaskStarted == \E j \in DOMAIN kTask : kTask[j] # "queued"
TaskRunning == \E j \in DOMAIN kTask : kTask[j] = "running"

ProcessAccepted ==
    /\ guiPc \in {"processDialog", "processQuestion"}
    /\ guiPc' = "idle"
    /\ info' # "DIM Creation Canceled"

\* C32: a process() request with the required fields filled, a destination
\* folder chosen, the content valid (or overridden) and no packaging run active
\* hands one PackageSpec to a PackagingWorker and starts it: after the step
\* the owner holds a packaging worker.
C32_AcceptedRequestStartsWorker ==
    [][ProcessAccepted /\ ~PackagingRunning => packaging_worker' # 0]_vars

\* C33: a run that signals completion and no error has put every regular file
\* under the effective root that is no symlink and has no ignored name at its
\* re-anchored destination in the content directory.
\* Violated: copy_file catches and logs its own failure, the pool returns
\* normally and run() sets success.
C33_CompletionMeansEveryFileCopied ==
    (xpc = "done" /\ signals = <<Complete>>)
        => \A f \in PlainFiles : UnderEffectiveRoot(f) => Landing(f) \in copied

\* C34: no archive whose name contains "templ" is ever copied into the content
\* directory, whether or not the removal of the template from the temporary
\* tree succeeded, and a template archive is at the template destination only
\* after a run that ended in success.
\* Violated: a failed os.remove is only logged and the file walk then schedules
\* the template like any other file; the template is copied before the content
\* is processed, so a later failure leaves it at the template destination.
C34_TemplateNeverInContentOnlyOnSuccess ==
    /\ \A dst \in copied :
           ~(IsArchiveName(basename(dst)) /\ IsTemplateName(basename(dst)))
    /\ (xpc = "done" /\ templateDest # {}) => success

\* what is below Content in the tree the archive is made of, relative to it:
\* the tree _create_manifest walks
ContentOf(tree) ==
    {[p |-> Tail(e.p), t |-> e.t] : e \in {x \in tree : Len(x.p) > 1 /\ x.p[1] = n_Content}}

\* C35: after a successful run with the built-in strategy the manifest and the
\* archive agree: every File VALUE of the manifest is the path of an entry of
\* the archive, and every archive entry under Content/ has exactly one File
\* entry.
\* Violated: the manifest lists every name os.walk puts in files, the archive
\* leaves out the ignored names and the symlinks.
C35_ManifestAgreesWithArchive ==
    zipResult = "ok" =>
        \A sep \in {"/", "\\"} :
            LET values == _create_manifest(ContentOf(zipTree), sep)
            IN /\ \A i \in 1..Len(values) :
                      \E k \in 1..Len(zipEntries) : zipEntries[k] = values[i]
               /\ \A k \in 1..Len(zipEntries) :
                      IsPrefix(lit_Content_slash, zipEntries[k])
                          => Cardinality({i \in 1..Len(values) : values[i] = zipEntries[k]}) = 1

\* C36: for every prefix, SKU, part and product name process() accepts (all
\* required fields non-empty) the name the preview shows (build_zip_filename)
\* is the name the pipeline writes (_build_zip_name).
\* Violated: the preview falls back to "IM" and "Package" when the cleaned
\* prefix or the sanitised name is empty, the pipeline has no fallback.
C36_PreviewIsPipelineName ==
    RequiredFieldsFilled =>
        \A i \in 1..Len(zipPreview), j \in 1..Len(zip_names) : zipPreview[i] = zip_names[j]

\* C37: the owner's extractionWorker reference is non-null whenever an
\* extraction worker is running, and a running worker is interrupted by
\* closeEvent only: the finished notification of an earlier worker, delivered
\* after a later one was started, neither interrupts the later worker nor
\* clears the reference to it.
\* Violated: _cleanupExtractionWorker reads self.extractionWorker, not the
\* sender, so it interrupts, waits on and forgets whichever worker is stored.
C37_ReferenceHeldWhileRunning ==
    \A w \in Workers :
        wstate[w] = "running"
            => /\ extractionWorker # 0
               /\ guiPc \notin {"closeCleaning", "closed"} => ~winterrupted[w]

\* C38: the owner deletes the contents of the build folder only while no
\* extraction and no packaging worker is running, on the path from clearAll
\* and on the path from closeEvent after its bounded wait.
\* Violated: closeEvent goes on to cleanDIMBuildFolder when wait(5000) has
\* timed out, and both paths look at the stored references only.
C38_CleansOnlyWhileNoWorkerRuns ==
    guiPc \in {"clearCleaning", "closeCleaning"}
        => ~AnyExtractionRunning /\ ~PackagingRunning

\* C39: every started packaging run terminates and delivers exactly one
\* finished notification, after all of its progress notifications.
\* Violated: with the external tool the run can wait for ever in
\* _zip_with_7z, so finished is never emitted and the owner's
\* onPackagingFinished, which would enable the controls again, never runs.
C39_RunEndsWithOneFinished ==
    <>[](ppc = "done" /\ finishedEmitted = 1)

\* C40: the owner shows the extraction-success state for a run only if that
\* same run emitted no error signal: _extractionHadError, as read by
\* onExtractionComplete, is the flag of the run whose completion is handled.
\* Violated: the flag is one field of the owner, cleared by every start
\* request; a start request handled between a run's queued error and its
\* queued completion makes the completion read the cleared flag.
C40_SuccessShownOnlyForCleanRun ==
    \A w \in shown : ~werror[w]
===========================================================================
